---- MODULE Spec2Model ----
(***************************************************************************)
(* Model of the GPU fluid solver (fluid/solver.js, fluid/shaders.js) and   *)
(* of its driver (fluid/main.js).                                          *)
(*                                                                         *)
(* Textures are objects of a heap, named by the integer the allocation     *)
(* returned; a framebuffer is identified with the texture attached to it.  *)
(* The WebGL context keeps the texture units, the uniforms of each program *)
(* and the program in use between calls, as the real context does.         *)
(*                                                                         *)
(* Numbers: a stored sample is an integer n standing for n/Q; a           *)
(* texture coordinate is kept as an exact fraction until the sampler       *)
(* resolves it to 1/F of a texel; each kernel rounds what it stores.       *)
(***************************************************************************)
EXTENDS Integers, Sequences, FiniteSets, TLC

(* ---------------------------------------------------------------- bounds *)
\* value resolution: the integer n of a sample stands for n/Q
Q == 16
\* sub-texel resolution of the bilinear sampler
F == 8
\* how many calls or events one behaviour has after construction
MaxCalls == 3
\* how many of them may reallocate the fields
MaxResizes == 2
\* the largest pressureIterations a configuration has
MaxIterations == 2

(* ------------------------------------------------------------ arithmetic *)
Abs(n) == IF n < 0 THEN -n ELSE n
Min(a, b) == IF a < b THEN a ELSE b
Max(a, b) == IF a > b THEN a ELSE b

\* n/d rounded to the nearest integer, halves upwards (d > 0)
Quant(n, d) == (2 * n + d) \div (2 * d)

\* Math.round of the fraction n/d (d > 0): nearest integer, halves towards +oo
MathRound(n, d) == (2 * n + d) \div (2 * d)

\* K applied to the value of e: e is evaluated once, before K's body
Then(e, K(_)) == CHOOSE r \in {K(x) : x \in {e}} : TRUE

RECURSIVE ISqrtIn(_, _, _)
ISqrtIn(n, lo, hi) ==
    IF hi - lo <= 1 THEN lo
    ELSE Then((lo + hi) \div 2, LAMBDA mid :
            IF mid * mid <= n THEN ISqrtIn(n, mid, hi) ELSE ISqrtIn(n, lo, mid))
\* floor of the square root of n, for 0 <= n < 2^30
ISqrt(n) == Then(n, LAMBDA v : ISqrtIn(v, 0, 32768))

Clamp(x, lo, hi) == IF x < lo THEN lo ELSE IF x > hi THEN hi ELSE x

RECURSIVE GCD(_, _)
\* the greatest common divisor of a >= 0 and b >= 0, not both 0
GCD(a, b) == IF b = 0 THEN a ELSE GCD(b, a % b)

(* -------------------------------------------------------------- textures *)
Cells(width, height) == (0 .. width - 1) \X (0 .. height - 1)

\* the function f as an explicit table, so that a texel is computed once
Image(f) == f @@ << >>

\* gl.texImage2D(..., null): WebGL allocates the image zero-filled
ZeroImage(width, height, ch) ==
    [width |-> width, height |-> height, ch |-> ch,
     data |-> Image([c \in Cells(width, height) |-> SubSeq(<<0, 0, 0, 0>>, 1, ch)])]

\* the texture bound to texture unit `unit` (0 or 1); 0 when none is bound
BoundTexture(m, unit) == m.g.units[unit + 1]

\* texelFetch with CLAMP_TO_EDGE; channels the format lacks read 0, alpha 1.0
Texel(t, i, j) ==
    Then(t.data[<<Clamp(i, 0, t.width - 1), Clamp(j, 0, t.height - 1)>>],
         LAMBDA c : <<c[1],
                      IF t.ch >= 2 THEN c[2] ELSE 0,
                      IF t.ch >= 3 THEN c[3] ELSE 0,
                      IF t.ch >= 4 THEN c[4] ELSE Q>>)

\* the four texels around (i0 + fx/F, j0 + fy/F), weighted
Mix(t, i0, j0, fx, fy) ==
    IF fx = 0 /\ fy = 0 THEN Texel(t, i0, j0)
    ELSE Then(<<Texel(t, i0, j0), Texel(t, i0 + 1, j0),
                Texel(t, i0, j0 + 1), Texel(t, i0 + 1, j0 + 1)>>,
              LAMBDA q :
                [k \in 1 .. 4 |->
                    Quant((F - fx) * (F - fy) * q[1][k] + fx * (F - fy) * q[2][k]
                          + (F - fx) * fy * q[3][k] + fx * fy * q[4][k], F * F)]
                @@ << >>)

\* LINEAR filtering at the normalized coordinate (xn/xd, yn/yd): the texel
\* coordinate, less the half texel of the texel centre, in units of 1/F
Bilinear(t, xn, xd, yn, yd) ==
    Then(<<(2 * xn * t.width * F - xd * F) \div (2 * xd),
           (2 * yn * t.height * F - yd * F) \div (2 * yd)>>,
         LAMBDA X : Mix(t, X[1] \div F, X[2] \div F, X[1] % F, X[2] % F))

\* GLSL texture(sampler, uv): the sampler uniform holds a texture unit
texture(m, sampler, xn, xd, yn, yd) ==
    IF BoundTexture(m, sampler) = 0 THEN <<0, 0, 0, Q>>
    ELSE Bilinear(m.g.tex[BoundTexture(m, sampler)], xn, xd, yn, yd)

\* texture(sampler, vUv + (kx * inv.x, ky * inv.y)) for the fragment of cell
\* (i, j) of a W x H viewport. The uniform inv = <<w, h>> stands for
\* (1/w, 1/h); a component 0 is the value 0.0 of a uniform never set.
Neighbour(m, sampler, inv, i, j, W, H, kx, ky) ==
    texture(m, sampler,
            (2 * i + 1) * (IF inv[1] = 0 THEN 1 ELSE inv[1])
                + 2 * (IF inv[1] = 0 THEN 0 ELSE kx) * W,
            2 * W * (IF inv[1] = 0 THEN 1 ELSE inv[1]),
            (2 * j + 1) * (IF inv[2] = 0 THEN 1 ELSE inv[2])
                + 2 * (IF inv[2] = 0 THEN 0 ELSE ky) * H,
            2 * H * (IF inv[2] = 0 THEN 1 ELSE inv[2]))

\* texture(sampler, vUv)
AtUv(m, sampler, i, j, W, H) ==
    texture(m, sampler, 2 * i + 1, 2 * W, 2 * j + 1, 2 * H)

\* the left, right, bottom and top neighbours of the fragment
Cross(m, sampler, inv, i, j, W, H) ==
    <<Neighbour(m, sampler, inv, i, j, W, H, -1, 0),
      Neighbour(m, sampler, inv, i, j, W, H, 1, 0),
      Neighbour(m, sampler, inv, i, j, W, H, 0, -1),
      Neighbour(m, sampler, inv, i, j, W, H, 0, 1)>>

(* ----------------------------------------------------- fragment kernels *)
\* Each kernel gives outColor for the fragment of cell (i, j) of a W x H
\* viewport, from the uniforms u of the program in use and the texture units.

\* uDt is in milliseconds: dt = uDt / DtDen seconds
DtDen == 1000

\* coord = vUv - uDt * velocity * uInverseTexSize, sampled from uSource
AdvectedSample(m, u, velocity, i, j, W, H) ==
    Then(<<(2 * i + 1) * DtDen * Q * (IF u.uInverseTexSize[1] = 0 THEN 1 ELSE u.uInverseTexSize[1])
                - 2 * W * u.uDt * (IF u.uInverseTexSize[1] = 0 THEN 0 ELSE velocity[1]),
           2 * W * DtDen * Q * (IF u.uInverseTexSize[1] = 0 THEN 1 ELSE u.uInverseTexSize[1]),
           (2 * j + 1) * DtDen * Q * (IF u.uInverseTexSize[2] = 0 THEN 1 ELSE u.uInverseTexSize[2])
                - 2 * H * u.uDt * (IF u.uInverseTexSize[2] = 0 THEN 0 ELSE velocity[2]),
           2 * H * DtDen * Q * (IF u.uInverseTexSize[2] = 0 THEN 1 ELSE u.uInverseTexSize[2])>>,
         LAMBDA coord :
    Then(<<GCD(Abs(coord[1]), coord[2]), GCD(Abs(coord[3]), coord[4])>>, LAMBDA g :
        texture(m, u.uSource, coord[1] \div g[1], coord[2] \div g[1],
                              coord[3] \div g[2], coord[4] \div g[2])))

\* the advection kernel with outColor = result, uDissipation left out
advectFragmentWithoutDissipation(m, u, i, j, W, H) ==
    Then(AtUv(m, u.uVelocity, i, j, W, H), LAMBDA velocity :
        AdvectedSample(m, u, velocity, i, j, W, H))

advectFragment(m, u, i, j, W, H) ==
    Then(AtUv(m, u.uVelocity, i, j, W, H), LAMBDA velocity :
    Then(AdvectedSample(m, u, velocity, i, j, W, H), LAMBDA result :
        <<Quant(result[1] * u.uDissipation[1], u.uDissipation[2]),
          Quant(result[2] * u.uDissipation[1], u.uDissipation[2]),
          Quant(result[3] * u.uDissipation[1], u.uDissipation[2]),
          Quant(result[4] * u.uDissipation[1], u.uDissipation[2])>>))

\* 0.5 * (r.x - l.x + t.y - b.y)
divergenceFragment(m, u, i, j, W, H) ==
    Then(Cross(m, u.uVelocity, u.uInverseTexSize, i, j, W, H), LAMBDA n :
        <<Quant(n[2][1] - n[1][1] + n[4][2] - n[3][2], 2), 0, 0, Q>>)

\* r.y - l.y - (t.x - b.x)
curlFragment(m, u, i, j, W, H) ==
    Then(Cross(m, u.uVelocity, u.uInverseTexSize, i, j, W, H), LAMBDA n :
        <<n[2][2] - n[1][2] - n[4][1] + n[3][1], 0, 0, Q>>)

\* resolution of the unit vector force / length(force)
DirDen == 64

\* force = 0.5 * (gx, gy); force /= length(force) + 1e-5, in 1/DirDen
Direction(gx, gy) ==
    Then(ISqrt(gx * gx + gy * gy), LAMBDA len :
        IF len = 0 THEN <<0, 0>>
        ELSE <<Quant(gx * DirDen, len), Quant(gy * DirDen, len)>>)

vorticityFragment(m, u, i, j, W, H) ==
    Then(Cross(m, u.uCurl, u.uInverseTexSize, i, j, W, H), LAMBDA n :
    Then(Direction(Abs(n[2][1]) - Abs(n[1][1]), Abs(n[4][1]) - Abs(n[3][1])), LAMBDA dir :
    Then(<<AtUv(m, u.uCurl, i, j, W, H)[1], AtUv(m, u.uVelocity, i, j, W, H)>>, LAMBDA cv :
        <<cv[2][1] + Quant(dir[1] * u.uVorticity * cv[1] * u.uDt, DirDen * DtDen),
          cv[2][2] + Quant(dir[2] * u.uVorticity * cv[1] * u.uDt, DirDen * DtDen),
          0, Q>>)))

\* a relax pass that takes the pressure beyond the edge of the grid as zero
pressureFragmentZeroOutside(m, u, i, j, W, H) ==
    Then(Cross(m, u.uPressure, u.uInverseTexSize, i, j, W, H), LAMBDA n :
        <<Quant((IF i = 0 THEN 0 ELSE n[1][1]) + (IF i = W - 1 THEN 0 ELSE n[2][1])
                + (IF j = 0 THEN 0 ELSE n[3][1]) + (IF j = H - 1 THEN 0 ELSE n[4][1])
                - AtUv(m, u.uDivergence, i, j, W, H)[1], 4), 0, 0, Q>>)

\* (l + r + b + t - divergence) * 0.25
pressureFragment(m, u, i, j, W, H) ==
    Then(Cross(m, u.uPressure, u.uInverseTexSize, i, j, W, H), LAMBDA n :
        <<Quant(n[1][1] + n[2][1] + n[3][1] + n[4][1]
                - AtUv(m, u.uDivergence, i, j, W, H)[1], 4), 0, 0, Q>>)

\* velocity - 0.5 * (r - l, t - b)
gradientSubtractFragment(m, u, i, j, W, H) ==
    Then(Cross(m, u.uPressure, u.uInverseTexSize, i, j, W, H), LAMBDA n :
    Then(AtUv(m, u.uVelocity, i, j, W, H), LAMBDA velocity :
        <<velocity[1] - Quant(n[2][1] - n[1][1], 2),
          velocity[2] - Quant(n[4][1] - n[3][1], 2), 0, Q>>))

\* points are in units of 1/PointDen of the normalized [0,1] range
PointDen == 4
\* exp(-x) for x = xn/xd >= 0, in eighths (rounded to the nearest): the
\* thresholds are ln(8 / (k - 1/2)) in hundredths
Influence(xn, xd) ==
    Then(<<xn, xd>>, LAMBDA x :
        IF x[1] <= (6 * x[2] - 1) \div 100 THEN 8
        ELSE IF x[1] <= (21 * x[2] - 1) \div 100 THEN 7
        ELSE IF x[1] <= (37 * x[2] - 1) \div 100 THEN 6
        ELSE IF x[1] <= (58 * x[2] - 1) \div 100 THEN 5
        ELSE IF x[1] <= (83 * x[2] - 1) \div 100 THEN 4
        ELSE IF x[1] <= (116 * x[2] - 1) \div 100 THEN 3
        ELSE IF x[1] <= (167 * x[2] - 1) \div 100 THEN 2
        ELSE IF x[1] <= (277 * x[2] - 1) \div 100 THEN 1 ELSE 0)

\* exp(-d * d / uRadius), d = distance(vUv, uPoint), radius = rad[1]/rad[2]:
\* with e = the offset in units of 1/(2 * PointDen * W) and 1/(2 * PointDen * H),
\* d * d = ((e.x * H)^2 + (e.y * W)^2) / (2 * PointDen * W * H)^2
\* (the factor W and H have in common is taken out of the three terms)
SplatInfluence(point, rad, i, j, W, H) ==
    Then(<<(PointDen * (2 * i + 1) - 2 * W * point[1]) * (H \div GCD(W, H)),
           (PointDen * (2 * j + 1) - 2 * H * point[2]) * (W \div GCD(W, H)),
           2 * PointDen * W * (H \div GCD(W, H))>>,
         LAMBDA e :
            IF rad[1] = 0 THEN (IF e[1] * e[1] + e[2] * e[2] = 0 THEN 8 ELSE 0)
            ELSE Influence((e[1] * e[1] + e[2] * e[2]) * rad[2], e[3] * e[3] * rad[1]))

\* v * influence, influence in eighths
Scaled(v, influence) == Quant(v * influence, 8)

\* a dye splat that raises the density without clamping it
splatFragmentUnclamped(m, u, i, j, W, H) ==
    Then(AtUv(m, u.uTarget, i, j, W, H), LAMBDA base :
    Then(SplatInfluence(u.uPoint, u.uRadius, i, j, W, H), LAMBDA influence :
        <<base[1] + Scaled(u.uColor[1], influence),
          base[2] + Scaled(u.uColor[2], influence),
          base[3] + Scaled(u.uColor[3], influence),
          base[4] + Scaled(Q, influence)>>))

\* a dye splat that adds its colour and leaves the density as it was
splatFragmentKeepingDensity(m, u, i, j, W, H) ==
    Then(AtUv(m, u.uTarget, i, j, W, H), LAMBDA base :
    Then(SplatInfluence(u.uPoint, u.uRadius, i, j, W, H), LAMBDA influence :
        <<base[1] + Scaled(u.uColor[1], influence),
          base[2] + Scaled(u.uColor[2], influence),
          base[3] + Scaled(u.uColor[3], influence),
          base[4]>>))

splatFragment(m, u, i, j, W, H) ==
    Then(AtUv(m, u.uTarget, i, j, W, H), LAMBDA base :
    Then(SplatInfluence(u.uPoint, u.uRadius, i, j, W, H), LAMBDA influence :
        <<base[1] + Scaled(u.uColor[1], influence),
          base[2] + Scaled(u.uColor[2], influence),
          base[3] + Scaled(u.uColor[3], influence),
          Clamp(base[4] + Scaled(Q, influence), 0, Q)>>))

\* a velocity splat with influence 1.0 at every sample
velocitySplatFragmentEverywhere(m, u, i, j, W, H) ==
    Then(AtUv(m, u.uTarget, i, j, W, H), LAMBDA velocity :
        <<velocity[1] + Scaled(u.uForce[1], 8),
          velocity[2] + Scaled(u.uForce[2], 8),
          0, Q>>)

velocitySplatFragment(m, u, i, j, W, H) ==
    Then(AtUv(m, u.uTarget, i, j, W, H), LAMBDA velocity :
    Then(SplatInfluence(u.uPoint, u.uRadius, i, j, W, H), LAMBDA influence :
        <<velocity[1] + Scaled(u.uForce[1], influence),
          velocity[2] + Scaled(u.uForce[2], influence),
          0, Q>>))

\* a clear kernel that stores the value instead of multiplying by it
clearFragmentStoringValue(m, u, i, j, W, H) ==
    Then(AtUv(m, u.uTarget, i, j, W, H), LAMBDA base :
        <<Quant(Q * u.uValue[1], u.uValue[2]),
          Quant(Q * u.uValue[1], u.uValue[2]),
          Quant(Q * u.uValue[1], u.uValue[2]),
          Quant(Q * u.uValue[1], u.uValue[2])>>)

clearFragment(m, u, i, j, W, H) ==
    Then(AtUv(m, u.uTarget, i, j, W, H), LAMBDA base :
        <<Quant(base[1] * u.uValue[1], u.uValue[2]),
          Quant(base[2] * u.uValue[1], u.uValue[2]),
          Quant(base[3] * u.uValue[1], u.uValue[2]),
          Quant(base[4] * u.uValue[1], u.uValue[2])>>)

(* ---------------------------------------------------------- WebGL context *)
\* A world m = [s |-> the FluidSolver object, g |-> the WebGL context,
\* log |-> the draws and swaps of the call in progress].

Programs == {"advect", "divergence", "curl", "vorticity", "pressure",
             "gradient", "splat", "velocitySplat", "clear"}

\* the sampler uniforms a program's fragment shader reads, in source order
Samplers(p) ==
    CASE p = "advect"        -> <<"uVelocity", "uSource">>
      [] p = "divergence"    -> <<"uVelocity">>
      [] p = "curl"          -> <<"uVelocity">>
      [] p = "vorticity"     -> <<"uCurl", "uVelocity">>
      [] p = "pressure"      -> <<"uPressure", "uDivergence">>
      [] p = "gradient"      -> <<"uPressure", "uVelocity">>
      [] p = "splat"         -> <<"uTarget">>
      [] p = "velocitySplat" -> <<"uTarget">>
      [] p = "clear"         -> <<"uTarget">>

\* uniforms of a freshly linked program: all zero
InitialUniforms ==
    [advect        |-> [uVelocity |-> 0, uSource |-> 0, uInverseTexSize |-> <<0, 0>>,
                        uDt |-> 0, uDissipation |-> <<0, 1>>],
     divergence    |-> [uVelocity |-> 0, uInverseTexSize |-> <<0, 0>>],
     curl          |-> [uVelocity |-> 0, uInverseTexSize |-> <<0, 0>>],
     vorticity     |-> [uVelocity |-> 0, uCurl |-> 0, uInverseTexSize |-> <<0, 0>>,
                        uVorticity |-> 0, uDt |-> 0],
     pressure      |-> [uPressure |-> 0, uDivergence |-> 0, uInverseTexSize |-> <<0, 0>>],
     gradient      |-> [uPressure |-> 0, uVelocity |-> 0, uInverseTexSize |-> <<0, 0>>],
     splat         |-> [uTarget |-> 0, uPoint |-> <<0, 0>>, uColor |-> <<0, 0, 0>>,
                        uRadius |-> <<0, 1>>],
     velocitySplat |-> [uTarget |-> 0, uPoint |-> <<0, 0>>, uForce |-> <<0, 0>>,
                        uRadius |-> <<0, 1>>],
     clear         |-> [uTarget |-> 0, uValue |-> <<0, 1>>]]

\* the context right after getContext('webgl2'). memory is the number of
\* texture images the context can still allocate, -1 when nothing limits it;
\* error is what gl.getError() would return.
InitialContext ==
    [tex |-> << >>, nextId |-> 1, units |-> <<0, 0>>, active |-> 0,
     prog |-> "", fbo |-> 0, uni |-> InitialUniforms,
     memory |-> -1, error |-> "NO_ERROR"]

useProgram(m, p) == [m EXCEPT !.g.prog = p]

\* gl.uniform*(gl.getUniformLocation(p, name), v): INVALID_OPERATION, and no
\* effect, unless p is the program in use
uniform(m, p, name, v) ==
    [m EXCEPT !.g = IF @.prog = p THEN [@ EXCEPT !.uni[p][name] = v] ELSE @]

activeTexture(m, unit) == [m EXCEPT !.g.active = unit]

bindTexture(m, id) == [m EXCEPT !.g = [@ EXCEPT !.units[@.active + 1] = id]]

bindFramebuffer(m, id) == [m EXCEPT !.g.fbo = id]

\* the fragment shader of program p with the uniforms u
Fragment(m, p, u, i, j, W, H) ==
    CASE p = "advect"        -> advectFragment(m, u, i, j, W, H)
      [] p = "divergence"    -> divergenceFragment(m, u, i, j, W, H)
      [] p = "curl"          -> curlFragment(m, u, i, j, W, H)
      [] p = "vorticity"     -> vorticityFragment(m, u, i, j, W, H)
      [] p = "pressure"      -> pressureFragment(m, u, i, j, W, H)
      [] p = "gradient"      -> gradientSubtractFragment(m, u, i, j, W, H)
      [] p = "splat"         -> splatFragment(m, u, i, j, W, H)
      [] p = "velocitySplat" -> velocitySplatFragment(m, u, i, j, W, H)
      [] p = "clear"         -> clearFragment(m, u, i, j, W, H)

\* the textures the program in use samples: one per sampler uniform
SampledTextures(m) ==
    Then(Samplers(m.g.prog), LAMBDA names :
        IF Len(names) = 1
        THEN <<BoundTexture(m, m.g.uni[m.g.prog][names[1]])>>
        ELSE <<BoundTexture(m, m.g.uni[m.g.prog][names[1]]),
               BoundTexture(m, m.g.uni[m.g.prog][names[2]])>>)

ImageOf(m, id) == IF id = 0 THEN << >> ELSE m.g.tex[id].data

\* what a draw of program p with uniforms u writes into the texture t
Rendered(m, p, u, t, W, H) ==
    Image([c \in Cells(t.width, t.height) |->
              IF c[1] < W /\ c[2] < H
              THEN SubSeq(Fragment(m, p, u, c[1], c[2], W, H), 1, t.ch)
              ELSE t.data[c]])

\* the log entry of a draw that sampled ins and left out in the target
DrawEntry(m, ins, out, loop) ==
    [kind |-> "draw", prog |-> m.g.prog, ins |-> ins,
     inData |-> IF Len(ins) = 1 THEN <<ImageOf(m, ins[1])>>
                ELSE <<ImageOf(m, ins[1]), ImageOf(m, ins[2])>>,
     target |-> m.g.fbo, out |-> out,
     rejected |-> loop, field |-> "", uni |-> m.g.uni[m.g.prog]]

\* gl.drawArrays on the bound framebuffer with viewport (0, 0, W, H). A draw
\* that samples the texture it renders to is a feedback loop: WebGL rejects
\* it (INVALID_OPERATION) and nothing is written.
drawArrays(m, W, H) ==
    Then(SampledTextures(m), LAMBDA ins :
        IF \E k \in 1 .. Len(ins) : ins[k] = m.g.fbo
        THEN [m EXCEPT !.log = Append(@, DrawEntry(m, ins, m.g.tex[m.g.fbo].data, TRUE))]
        ELSE Then(Rendered(m, m.g.prog, m.g.uni[m.g.prog], m.g.tex[m.g.fbo], W, H),
                  LAMBDA out :
                    [m EXCEPT !.g.tex[m.g.fbo].data = out,
                              !.log = Append(@, DrawEntry(m, ins, out, FALSE))]))

(* ------------------------------------------------------------ FluidSolver *)
\* The operators below take the world m as it is before the call and give the
\* world after it. The WebGL calls of a method leave the solver object as it
\* is, so a method reads this.* from m throughout.

\* a texture whose texImage2D failed: it has no image
NoImage(ch) == [width |-> 0, height |-> 0, ch |-> ch, data |-> << >>]

\* returns [m |-> the world after the call, texture |-> the new name]. When
\* the context cannot allocate the image, texImage2D records OUT_OF_MEMORY and
\* returns; nothing is thrown and the texture object is returned all the same.
createTexture(m, width, height, ch) ==
    [m |-> bindTexture([m EXCEPT !.g.nextId = @ + 1,
                                 !.g.tex = (m.g.nextId :>
                                              (IF m.g.memory = 0 THEN NoImage(ch)
                                               ELSE ZeroImage(width, height, ch))) @@ @,
                                 !.g.error = IF m.g.memory = 0 THEN "OUT_OF_MEMORY" ELSE @,
                                 !.g.memory = IF @ > 0 THEN @ - 1 ELSE @],
                       m.g.nextId),
     texture |-> m.g.nextId]

\* the framebuffer of a texture carries the texture's name
createFramebuffer(m, tx) == bindFramebuffer(m, tx)

\* a double buffer whose two halves share one texture
createDoubleFBOShared(m, width, height, ch) ==
    Then(createTexture(m, width, height, ch), LAMBDA a :
        [m |-> createFramebuffer(a.m, a.texture),
         fbo |-> [read |-> a.texture, write |-> a.texture,
                  size |-> [width |-> width, height |-> height]]])

\* returns [m |-> world, fbo |-> the double buffer object]
createDoubleFBO(m, width, height, ch) ==
    Then(createTexture(m, width, height, ch), LAMBDA a :
    Then(createTexture(a.m, width, height, ch), LAMBDA b :
        [m |-> createFramebuffer(createFramebuffer(b.m, a.texture), b.texture),
         fbo |-> [read |-> a.texture, write |-> b.texture,
                  size |-> [width |-> width, height |-> height]]]))

\* a swap() that forgets to exchange the two buffers
swapKeepsBuffers(m, f) ==
    [m EXCEPT !.log = Append(@, [kind |-> "swap", prog |-> "", ins |-> << >>,
                                 inData |-> << >>, target |-> m.s[f].write,
                                 out |-> << >>, rejected |-> FALSE,
                                 field |-> f, uni |-> << >>])]

\* DoubleFBO.swap() of the field this[f]; the log entry names the buffer
\* that was the write buffer and is the read buffer from now on
swap(m, f) ==
    [m EXCEPT !.s[f].read = m.s[f].write, !.s[f].write = m.s[f].read,
              !.log = Append(@, [kind |-> "swap", prog |-> "", ins |-> << >>,
                                 inData |-> << >>, target |-> m.s[f].write,
                                 out |-> << >>, rejected |-> FALSE,
                                 field |-> f, uni |-> << >>])]

\* the textures the solver or the context still refers to; the others are
\* unreachable and are dropped from the heap
Live(m) ==
    ({m.s.velocity.read, m.s.velocity.write, m.s.dye.read, m.s.dye.write,
      m.s.pressure.read, m.s.pressure.write, m.s.divergence, m.s.curl,
      m.g.units[1], m.g.units[2], m.g.fbo}) \ {0}

Collect(m) == [m EXCEPT !.g.tex = Image([id \in Live(m) |-> m.g.tex[id]])]

\* initBuffers that keeps the buffers it has when the sizes did not change
initBuffersKeepingSameSize(m) ==
    IF /\ m.s.velocity.read # 0
       /\ m.s.velocity.size.width = m.s.settings.simSize
       /\ m.s.dye.size.width = m.s.settings.dyeSize
    THEN m
    ELSE
        Then(createDoubleFBO(m, m.s.settings.simSize, m.s.settings.simSize, 2), LAMBDA v :
        Then(createDoubleFBO([v.m EXCEPT !.s.velocity = v.fbo],
                             m.s.settings.dyeSize, m.s.settings.dyeSize, 4), LAMBDA d :
        Then(createTexture([d.m EXCEPT !.s.dye = d.fbo],
                           m.s.settings.simSize, m.s.settings.simSize, 1), LAMBDA dv :
        Then(createDoubleFBO(createFramebuffer([dv.m EXCEPT !.s.divergence = dv.texture],
                                               dv.texture),
                             m.s.settings.simSize, m.s.settings.simSize, 1), LAMBDA p :
        Then(createTexture([p.m EXCEPT !.s.pressure = p.fbo],
                           m.s.settings.simSize, m.s.settings.simSize, 1), LAMBDA c :
        Then(createFramebuffer([c.m EXCEPT !.s.curl = c.texture], c.texture), LAMBDA x :
            Collect(x)))))))

\* initBuffers that allocates pressure at the dye resolution
initBuffersPressureAtDyeSize(m) ==
    Then(createDoubleFBO(m, m.s.settings.simSize, m.s.settings.simSize, 2), LAMBDA v :
    Then(createDoubleFBO([v.m EXCEPT !.s.velocity = v.fbo],
                         m.s.settings.dyeSize, m.s.settings.dyeSize, 4), LAMBDA d :
    Then(createTexture([d.m EXCEPT !.s.dye = d.fbo],
                       m.s.settings.simSize, m.s.settings.simSize, 1), LAMBDA dv :
    Then(createDoubleFBO(createFramebuffer([dv.m EXCEPT !.s.divergence = dv.texture],
                                           dv.texture),
                         m.s.settings.dyeSize, m.s.settings.dyeSize, 1), LAMBDA p :
    Then(createTexture([p.m EXCEPT !.s.pressure = p.fbo],
                       m.s.settings.simSize, m.s.settings.simSize, 1), LAMBDA c :
    Then(createFramebuffer([c.m EXCEPT !.s.curl = c.texture], c.texture), LAMBDA x :
        Collect(x)))))))

\* initBuffers(): velocity RG16F, dye RGBA16F, divergence, pressure and curl
\* R16F; divergence and curl are single textures
initBuffers(m) ==
    Then(createDoubleFBO(m, m.s.settings.simSize, m.s.settings.simSize, 2), LAMBDA v :
    Then(createDoubleFBO([v.m EXCEPT !.s.velocity = v.fbo],
                         m.s.settings.dyeSize, m.s.settings.dyeSize, 4), LAMBDA d :
    Then(createTexture([d.m EXCEPT !.s.dye = d.fbo],
                       m.s.settings.simSize, m.s.settings.simSize, 1), LAMBDA dv :
    Then(createDoubleFBO(createFramebuffer([dv.m EXCEPT !.s.divergence = dv.texture],
                                           dv.texture),
                         m.s.settings.simSize, m.s.settings.simSize, 1), LAMBDA p :
    Then(createTexture([p.m EXCEPT !.s.pressure = p.fbo],
                       m.s.settings.simSize, m.s.settings.simSize, 1), LAMBDA c :
    Then(createFramebuffer([c.m EXCEPT !.s.curl = c.texture], c.texture), LAMBDA x :
        Collect(x)))))))

\* a resize that scales the current sizes instead of the base sizes
resizeFromCurrent(m, dpr) ==
    Then(IF dpr[1] < dpr[2] THEN <<1, 1>> ELSE dpr, LAMBDA scale :
    Then([m EXCEPT
            !.s.settings.simSize = MathRound(m.s.settings.simSize * scale[1], scale[2]),
            !.s.settings.dyeSize = MathRound(m.s.settings.dyeSize * scale[1], scale[2])],
         LAMBDA x : initBuffers(x)))

\* a resize that takes dpr as the scale, without Math.max(1, dpr)
resizeUnclamped(m, dpr) ==
    Then([m EXCEPT
            !.s.settings.simSize = MathRound(m.s.baseSize.sim * dpr[1], dpr[2]),
            !.s.settings.dyeSize = MathRound(m.s.baseSize.dye * dpr[1], dpr[2])],
         LAMBDA x : initBuffers(x))

\* resize(dpr), dpr = dpr[1]/dpr[2] with dpr[2] > 0; scale = Math.max(1, dpr)
resize(m, dpr) ==
    Then(IF dpr[1] < dpr[2] THEN <<1, 1>> ELSE dpr, LAMBDA scale :
    Then([m EXCEPT
            !.s.settings.simSize = MathRound(m.s.baseSize.sim * scale[1], scale[2]),
            !.s.settings.dyeSize = MathRound(m.s.baseSize.dye * scale[1], scale[2])],
         LAMBDA x : initBuffers(x)))

renderTo(m, target, width, height) ==
    Then(bindFramebuffer(m, target), LAMBDA x : drawArrays(x, width, height))

\* bind texture `id` to unit `unit` and point the sampler `name` of p at it
BindInput(m, p, name, unit, id) ==
    uniform(bindTexture(activeTexture(m, unit), id), p, name, unit)

InvSize(size) == <<size.width, size.height>>

\* advect(velocity, target, dissipation, dt): the two fields by name
advect(m, velocity, target, dissipation, dt) ==
    LET p  == "advect"
        sz == m.s[target].size
        m1 == useProgram(m, p)
        m2 == uniform(m1, p, "uDt", dt)
        m3 == uniform(m2, p, "uDissipation", dissipation)
        m4 == uniform(m3, p, "uInverseTexSize", InvSize(sz))
        m5 == BindInput(m4, p, "uVelocity", 0, m.s[velocity].read)
        m6 == BindInput(m5, p, "uSource", 1, m.s[target].read)
        m7 == renderTo(m6, m.s[target].write, sz.width, sz.height)
    IN  Then(m7, LAMBDA x : swap(x, target))

computeDivergence(m) ==
    LET p  == "divergence"
        sz == m.s.velocity.size
        m1 == useProgram(m, p)
        m2 == uniform(m1, p, "uInverseTexSize", InvSize(sz))
        m3 == BindInput(m2, p, "uVelocity", 0, m.s.velocity.read)
        m4 == renderTo(m3, m.s.divergence, sz.width, sz.height)
    IN  m4

computeCurl(m) ==
    LET p  == "curl"
        sz == m.s.velocity.size
        m1 == useProgram(m, p)
        m2 == uniform(m1, p, "uInverseTexSize", InvSize(sz))
        m3 == BindInput(m2, p, "uVelocity", 0, m.s.velocity.read)
        m4 == renderTo(m3, m.s.curl, sz.width, sz.height)
    IN  m4

applyVorticity(m, amount, dt) ==
    LET p  == "vorticity"
        sz == m.s.velocity.size
        m1 == useProgram(m, p)
        m2 == uniform(m1, p, "uVorticity", amount)
        m3 == uniform(m2, p, "uDt", dt)
        m4 == uniform(m3, p, "uInverseTexSize", InvSize(sz))
        m5 == BindInput(m4, p, "uVelocity", 0, m.s.velocity.read)
        m6 == BindInput(m5, p, "uCurl", 1, m.s.curl)
        m7 == renderTo(m6, m.s.velocity.write, sz.width, sz.height)
    IN  Then(m7, LAMBDA x : swap(x, "velocity"))

\* a loop turn that leaves the result in the write buffer
PressureIterationNoSwap(m, width, height) ==
    renderTo(BindInput(m, "pressure", "uPressure", 0, m.s.pressure.read),
             m.s.pressure.write, width, height)

\* one turn of the loop of solvePressure
PressureIteration(m, width, height) ==
    Then(renderTo(BindInput(m, "pressure", "uPressure", 0, m.s.pressure.read),
                  m.s.pressure.write, width, height),
         LAMBDA x : swap(x, "pressure"))

RECURSIVE PressureLoop(_, _, _, _, _)
\* for (let i = 0; i < iterations; i += 1) { ... }
PressureLoop(m, i, iterations, width, height) ==
    IF i < iterations
    THEN Then(PressureIteration(m, width, height),
              LAMBDA x : PressureLoop(x, i + 1, iterations, width, height))
    ELSE m

\* solvePressure with the loop bound off by one: i <= iterations
solvePressureOneMore(m, iterations) ==
    LET p  == "pressure"
        sz == m.s.velocity.size
        m1 == useProgram(m, p)
        m2 == uniform(m1, p, "uInverseTexSize", InvSize(sz))
        m3 == BindInput(m2, p, "uDivergence", 1, m.s.divergence)
    IN  Then(m3, LAMBDA x : PressureLoop(x, 0, iterations + 1, sz.width, sz.height))

solvePressure(m, iterations) ==
    LET p  == "pressure"
        sz == m.s.velocity.size
        m1 == useProgram(m, p)
        m2 == uniform(m1, p, "uInverseTexSize", InvSize(sz))
        m3 == BindInput(m2, p, "uDivergence", 1, m.s.divergence)
    IN  Then(m3, LAMBDA x : PressureLoop(x, 0, iterations, sz.width, sz.height))

\* a gradient subtraction that leaves the result in the write buffer
subtractGradientNoSwap(m) ==
    LET p  == "gradient"
        sz == m.s.velocity.size
        m1 == useProgram(m, p)
        m2 == uniform(m1, p, "uInverseTexSize", InvSize(sz))
        m3 == BindInput(m2, p, "uPressure", 0, m.s.pressure.read)
        m4 == BindInput(m3, p, "uVelocity", 1, m.s.velocity.read)
        m5 == renderTo(m4, m.s.velocity.write, sz.width, sz.height)
    IN  m5

subtractGradient(m) ==
    LET p  == "gradient"
        sz == m.s.velocity.size
        m1 == useProgram(m, p)
        m2 == uniform(m1, p, "uInverseTexSize", InvSize(sz))
        m3 == BindInput(m2, p, "uPressure", 0, m.s.pressure.read)
        m4 == BindInput(m3, p, "uVelocity", 1, m.s.velocity.read)
        m5 == renderTo(m4, m.s.velocity.write, sz.width, sz.height)
    IN  Then(m5, LAMBDA x : swap(x, "velocity"))

\* a clear that, for the value 0, replaces the field by a fresh one of the dye
\* resolution
clearTargetByAllocation(m, target, value) ==
    LET p  == "clear"
        sz == m.s[target].size
        m1 == useProgram(m, p)
        m2 == uniform(m1, p, "uValue", value)
        m3 == BindInput(m2, p, "uTarget", 0, m.s[target].read)
        m4 == renderTo(m3, m.s[target].write, sz.width, sz.height)
    IN  IF value[1] = 0
        THEN Then(createDoubleFBO(m, m.s.settings.dyeSize, m.s.settings.dyeSize,
                                  IF target = "velocity" THEN 2
                                  ELSE IF target = "dye" THEN 4 ELSE 1),
                  LAMBDA d : [d.m EXCEPT !.s[target] = d.fbo])
        ELSE Then(m4, LAMBDA x : swap(x, target))

\* a clear that binds its target to whichever texture unit is active
clearTargetOnActiveUnit(m, target, value) ==
    LET p  == "clear"
        sz == m.s[target].size
        m1 == useProgram(m, p)
        m2 == uniform(m1, p, "uValue", value)
        m3 == uniform(bindTexture(m2, m.s[target].read), p, "uTarget", 0)
        m4 == renderTo(m3, m.s[target].write, sz.width, sz.height)
    IN  Then(m4, LAMBDA x : swap(x, target))

\* clearTarget(target, value): the field by name, value = value[1]/value[2]
clearTarget(m, target, value) ==
    LET p  == "clear"
        sz == m.s[target].size
        m1 == useProgram(m, p)
        m2 == uniform(m1, p, "uValue", value)
        m3 == BindInput(m2, p, "uTarget", 0, m.s[target].read)
        m4 == renderTo(m3, m.s[target].write, sz.width, sz.height)
    IN  Then(m4, LAMBDA x : swap(x, target))

\* a step that starts the pressure solve from zero
stepClearingPressure(m, dt) ==
    Then(advect(m, "velocity", "velocity", m.s.settings.velocityDissipation, dt), LAMBDA m1 :
    Then(advect(m1, "velocity", "dye", m.s.settings.densityDissipation, dt), LAMBDA m2 :
    Then(computeCurl(m2), LAMBDA m3 :
    Then(applyVorticity(m3, m.s.settings.vorticity, dt), LAMBDA m4 :
    Then(computeDivergence(m4), LAMBDA m5 :
    Then(clearTarget(m5, "pressure", <<0, 1>>), LAMBDA m6 :
    Then(solvePressure(m6, m.s.settings.pressureIterations), LAMBDA m7 :
    Then(subtractGradient(m7), LAMBDA m8 :
        bindFramebuffer(m8, 0)))))))))

\* step(dt): the settings are read once, at the start
step(m, dt) ==
    Then(advect(m, "velocity", "velocity", m.s.settings.velocityDissipation, dt), LAMBDA m1 :
    Then(advect(m1, "velocity", "dye", m.s.settings.densityDissipation, dt), LAMBDA m2 :
    Then(computeCurl(m2), LAMBDA m3 :
    Then(applyVorticity(m3, m.s.settings.vorticity, dt), LAMBDA m4 :
    Then(computeDivergence(m4), LAMBDA m5 :
    Then(solvePressure(m5, m.s.settings.pressureIterations), LAMBDA m6 :
    Then(subtractGradient(m6), LAMBDA m7 :
        bindFramebuffer(m7, 0))))))))

addVelocitySplat(m, point, force) ==
    LET p  == "velocitySplat"
        sz == m.s.velocity.size
        m1 == useProgram(m, p)
        m2 == uniform(m1, p, "uPoint", point)
        m3 == uniform(m2, p, "uForce", force)
        m4 == uniform(m3, p, "uRadius", m.s.settings.splatRadius)
        m5 == BindInput(m4, p, "uTarget", 0, m.s.velocity.read)
        m6 == renderTo(m5, m.s.velocity.write, sz.width, sz.height)
    IN  Then(m6, LAMBDA x : swap(x, "velocity"))

\* an addDyeSplat that binds the velocity texture as its uTarget
addDyeSplatReadingVelocity(m, point, color) ==
    LET p  == "splat"
        sz == m.s.dye.size
        m1 == useProgram(m, p)
        m2 == uniform(m1, p, "uPoint", point)
        m3 == uniform(m2, p, "uColor", color)
        m4 == uniform(m3, p, "uRadius", m.s.settings.splatRadius)
        m5 == BindInput(m4, p, "uTarget", 0, m.s.velocity.read)
        m6 == renderTo(m5, m.s.dye.write, sz.width, sz.height)
    IN  Then(m6, LAMBDA x : swap(x, "dye"))

\* an addDyeSplat that also pushes the fluid, by the red and green it adds
addDyeSplatPushingVelocity(m, point, color) ==
    LET p  == "splat"
        sz == m.s.dye.size
        m1 == useProgram(m, p)
        m2 == uniform(m1, p, "uPoint", point)
        m3 == uniform(m2, p, "uColor", color)
        m4 == uniform(m3, p, "uRadius", m.s.settings.splatRadius)
        m5 == BindInput(m4, p, "uTarget", 0, m.s.dye.read)
        m6 == renderTo(m5, m.s.dye.write, sz.width, sz.height)
    IN  Then(m6, LAMBDA x :
            addVelocitySplat(swap(x, "dye"), point, <<color[1], color[2]>>))

\* an addDyeSplat that swaps velocity where it should swap dye
addDyeSplatSwappingVelocity(m, point, color) ==
    LET p  == "splat"
        sz == m.s.dye.size
        m1 == useProgram(m, p)
        m2 == uniform(m1, p, "uPoint", point)
        m3 == uniform(m2, p, "uColor", color)
        m4 == uniform(m3, p, "uRadius", m.s.settings.splatRadius)
        m5 == BindInput(m4, p, "uTarget", 0, m.s.dye.read)
        m6 == renderTo(m5, m.s.dye.write, sz.width, sz.height)
    IN  Then(m6, LAMBDA x : swap(x, "velocity"))

addDyeSplat(m, point, color) ==
    LET p  == "splat"
        sz == m.s.dye.size
        m1 == useProgram(m, p)
        m2 == uniform(m1, p, "uPoint", point)
        m3 == uniform(m2, p, "uColor", color)
        m4 == uniform(m3, p, "uRadius", m.s.settings.splatRadius)
        m5 == BindInput(m4, p, "uTarget", 0, m.s.dye.read)
        m6 == renderTo(m5, m.s.dye.write, sz.width, sz.height)
    IN  Then(m6, LAMBDA x : swap(x, "dye"))

(* ------------------------------------------------------------ the driver *)
\* a frame that runs its step twice
renderSteppingTwice(m, delta) ==
    Then(step(step(m, Min(delta, 16)), Min(delta, 16)), LAMBDA x :
        bindTexture(activeTexture(useProgram(bindFramebuffer(x, 0), "display"), 0),
                    x.s.dye.read))

\* a frame that passes the time since the last frame on as it is
renderUnclamped(m, delta) ==
    Then(step(m, delta), LAMBDA x :
        bindTexture(activeTexture(useProgram(bindFramebuffer(x, 0), "display"), 0),
                    x.s.dye.read))

\* the step and the display pass of render(now); delta = now - lastTime in ms.
\* Returns the world after the frame.
render(m, delta) ==
    Then(step(m, Min(delta, 16)), LAMBDA x :
        bindTexture(activeTexture(useProgram(bindFramebuffer(x, 0), "display"), 0),
                    x.s.dye.read))

\* the window's resize handler
windowResize(m, dpr) ==
    Then(resize(m, dpr), LAMBDA m1 :
    Then(clearTarget(m1, "velocity", <<0, 1>>), LAMBDA m2 :
    Then(clearTarget(m2, "dye", <<0, 1>>), LAMBDA m3 :
        clearTarget(m3, "pressure", <<0, 1>>))))

\* Math.min(window.devicePixelRatio || 1, 2), the ratio as a fraction
DevicePixelRatio(ratio) ==
    IF ratio[1] = 0 THEN <<1, 1>>
    ELSE IF ratio[1] > 2 * ratio[2] THEN <<2, 1>> ELSE ratio

\* canvas.getBoundingClientRect(): the canvas has the CSS size of the window
Rect == [left |-> 0, top |-> 0, width |-> 8, height |-> 8]

\* getPointerPosition(event): [x, 1 - y] relative to the canvas, in units of
\* 1/PointDen
getPointerPosition(event) ==
    <<Quant((event.clientX - Rect.left) * PointDen, Rect.width),
      PointDen - Quant((event.clientY - Rect.top) * PointDen, Rect.height)>>

\* handlePointerDown(event), color the result of randomColor(); ps is
\* pointerState
handlePointerDown(ps, event, color) ==
    [isDown |-> TRUE, last |-> getPointerPosition(event), color |-> color]

\* a handlePointerMove that does not ask whether a gesture is active
handlePointerMoveAlways(ps, m, event) ==
    Then(getPointerPosition(event), LAMBDA current :
    Then(IF ps.last = << >> THEN current ELSE ps.last, LAMBDA last :
        [pointerState |-> [ps EXCEPT !.last = current],
         m |-> Then(addVelocitySplat(m, current,
                        <<Quant((current[1] - last[1]) * 600 * Q, PointDen),
                          Quant((current[2] - last[2]) * 600 * Q, PointDen)>>),
                    LAMBDA x : addDyeSplat(x, current, ps.color))]))

\* handlePointerMove(event): returns pointerState and the world after it.
\* force = [dx * 600, dy * 600], in units of 1/Q
handlePointerMove(ps, m, event) ==
    IF ~ps.isDown THEN [pointerState |-> ps, m |-> m]
    ELSE
        Then(getPointerPosition(event), LAMBDA current :
        Then(IF ps.last = << >> THEN current ELSE ps.last, LAMBDA last :
            [pointerState |-> [ps EXCEPT !.last = current],
             m |-> Then(addVelocitySplat(m, current,
                            <<Quant((current[1] - last[1]) * 600 * Q, PointDen),
                              Quant((current[2] - last[2]) * 600 * Q, PointDen)>>),
                        LAMBDA x : addDyeSplat(x, current, ps.color))]))

handlePointerUp(ps) == [ps EXCEPT !.isDown = FALSE, !.last = << >>]

(* ---------------------------------------------------------- state machine *)
VARIABLES
    solver,     \* the FluidSolver object: settings, baseSize and the fields
    gl,         \* the WebGL context: textures, units, uniforms, program
    display,    \* what the display pass sampled last: texture and image
    options,    \* history: the options the solver was constructed with
    passLog,    \* history: the draws and swaps of the last call, in order
    call,       \* history: the last call and its arguments
    calls,      \* history: how many calls were made
    resizes,    \* history: how many of them reallocated the fields
    written,    \* history: per field, the buffer and image its last pass wrote
    lastJacobi, \* history: the pressure the last relax pass of the last step
                \* wrote, None after a clear or a resize
    page        \* the page that runs main.js: how its initialization ended,
                \* its listeners, its animation loop and its pointerState

vars == <<solver, gl, display, options, passLog, call, calls, resizes, written,
          lastJacobi, page>>

None == [texture |-> 0, image |-> << >>]

\* the options a solver is constructed with, over DEFAULTS
\* the smallest grid a solver can be given has one cell
Configs ==
    {[simSize |-> 2, dyeSize |-> 3,
      densityDissipation |-> <<197, 200>>, velocityDissipation |-> <<197, 200>>,
      pressureIterations |-> n, vorticity |-> 30, splatRadius |-> <<1, 4>>] :
        n \in 0 .. MaxIterations}
    \cup
    {[simSize |-> 1, dyeSize |-> 1,
      densityDissipation |-> <<1, 1>>, velocityDissipation |-> <<197, 200>>,
      pressureIterations |-> 1, vorticity |-> 30, splatRadius |-> <<1, 4>>]}

\* the arguments the calls are tried with
DtSet == {-16, 16, 32}
Points == {<<1, 1>>, <<6, -2>>}
Forces == {<<1000, -500>>}
Colors == {<<Q, 0, 0>>}
\* the colours addDyeSplat is called with directly
SplatColors == {<<4 * Q, 0, 0>>}
ClearValues == {<<0, 1>>, <<1, 2>>, <<1, 1>>}
Fields == {"velocity", "dye", "pressure"}
Dprs == {<<-1, 1>>, <<0, 1>>, <<3, 2>>, <<2, 1>>}
\* now - lastTime of an animation frame, in milliseconds
Deltas == {0, 20}

World == [s |-> solver, g |-> gl, log |-> << >>]

\* the listeners main.js installs (156-173)
Listeners == {"pointerdown", "pointermove", "pointerup", "touchstart",
              "touchmove", "touchend", "resize"}

\* what the browser offers a page: WebGL2, the two extensions, the program
\* that does not build and the stage it fails at (<<"", "">>: all build), and
\* window.devicePixelRatio
BuiltPrograms == <<"display", "advect", "divergence", "curl", "vorticity",
                   "pressure", "gradient", "splat", "velocitySplat", "clear">>
Stages == {"vertex", "fragment", "link"}
Environments ==
    [webgl2 : BOOLEAN, floatExt : BOOLEAN, linearExt : BOOLEAN,
     broken : {<<"", "">>} \cup
              ({BuiltPrograms[k] : k \in 1 .. Len(BuiltPrograms)} \X Stages),
     dpr : {<<0, 1>>, <<3, 2>>}]

\* a browser that offers all the page needs
Supporting == [webgl2 |-> TRUE, floatExt |-> TRUE, linearExt |-> TRUE,
               broken |-> <<"", "">>, dpr |-> <<3, 2>>]

\* the page once main.js ran to its end: every listener installed, a frame
\* requested, no gesture in progress
RunningPage(env, color) ==
    [phase |-> "running", env |-> env, error |-> "", status |-> "",
     listeners |-> Listeners, frames |-> TRUE,
     pointerState |-> [isDown |-> FALSE, last |-> << >>, color |-> color]]

\* new FluidSolver(gl, options)
constructor(opts) ==
    Then([s |-> [settings |-> opts,
                 baseSize |-> [sim |-> opts.simSize, dye |-> opts.dyeSize],
                 velocity |-> [read |-> 0, write |-> 0],
                 dye |-> [read |-> 0, write |-> 0],
                 divergence |-> 0,
                 pressure |-> [read |-> 0, write |-> 0],
                 curl |-> 0],
          g |-> InitialContext, log |-> << >>],
         LAMBDA x : initBuffers(x))

\* the options main.js constructs its solver with: the sizes, over DEFAULTS
PageOptions ==
    CHOOSE o \in Configs : o.simSize = 2 /\ o.pressureIterations = MaxIterations

\* no solver was constructed; getContext returned null
NoSolver == << >>
NoContext == << >>

\* the page before main.js runs, and after a throw at its top level: what
\* follows the throw (the listeners, the first frame request) never ran
LoadingPage(env) ==
    [phase |-> "loading", env |-> env, error |-> << >>, status |-> "",
     listeners |-> {}, frames |-> FALSE, pointerState |-> << >>]
Aborted(env, status, error) ==
    [phase |-> "failed", env |-> env, error |-> error, status |-> status,
     listeners |-> {}, frames |-> FALSE, pointerState |-> << >>]

\* a main.js that goes on without the float extensions
mainWithoutExtensionCheck(env, color) ==
    IF ~env.webgl2
    THEN [page |-> Aborted(env, "WebGL2 is required for this demo.",
                           <<"WebGL2 unavailable">>),
          m |-> [s |-> NoSolver, g |-> NoContext, log |-> << >>]]
    ELSE IF env.broken # <<"", "">>
    THEN [page |-> Aborted(env, "", <<"info log", env.broken[1], env.broken[2]>>),
          m |-> [s |-> NoSolver, g |-> InitialContext, log |-> << >>]]
    ELSE [page |-> RunningPage(env, color),
          m |-> Then(constructor(PageOptions), LAMBDA m0 :
                Then(clearTarget(m0, "velocity", <<0, 1>>), LAMBDA m1 :
                Then(clearTarget(m1, "dye", <<0, 1>>), LAMBDA m2 :
                Then(clearTarget(m2, "pressure", <<0, 1>>), LAMBDA m3 :
                    windowResize(m3, DevicePixelRatio(env.dpr))))))]

\* the top level of main.js, run once when the page loads (74-201): returns
\* the page and the world it leaves. A throw ends it: createProgram throws
\* the info log of the shader or program that did not build.
main(env, color) ==
    IF ~env.webgl2
    THEN [page |-> Aborted(env, "WebGL2 is required for this demo.",
                           <<"WebGL2 unavailable">>),
          m |-> [s |-> NoSolver, g |-> NoContext, log |-> << >>]]
    ELSE IF ~env.floatExt \/ ~env.linearExt
    THEN [page |-> Aborted(env, "Floating point textures are required for this demo.",
                           <<"Float textures unavailable">>),
          m |-> [s |-> NoSolver, g |-> InitialContext, log |-> << >>]]
    ELSE IF env.broken # <<"", "">>
    THEN [page |-> Aborted(env, "", <<"info log", env.broken[1], env.broken[2]>>),
          m |-> [s |-> NoSolver, g |-> InitialContext, log |-> << >>]]
    ELSE [page |-> RunningPage(env, color),
          m |-> Then(constructor(PageOptions), LAMBDA m0 :
                Then(clearTarget(m0, "velocity", <<0, 1>>), LAMBDA m1 :
                Then(clearTarget(m1, "dye", <<0, 1>>), LAMBDA m2 :
                Then(clearTarget(m2, "pressure", <<0, 1>>), LAMBDA m3 :
                    windowResize(m3, DevicePixelRatio(env.dpr))))))]

Init ==
    \E opts \in Configs : \E m \in {constructor(opts)} :
            /\ solver = m.s
            /\ gl = m.g
            /\ display = None
            /\ options = opts
            /\ passLog = << >>
            /\ call = [op |-> "new"]
            /\ calls = 0
            /\ resizes = 0
            /\ written = [f \in Fields |-> None]
            /\ lastJacobi = None
            /\ page = RunningPage(Supporting, <<Q, 0, 0>>)

\* the draws of a log that wrote one of the textures ids, by position
DrawsTo(log, ids) ==
    {k \in 1 .. Len(log) :
        log[k].kind = "draw" /\ ~log[k].rejected /\ log[k].target \in ids}

SetMax(S) == CHOOSE k \in S : \A j \in S : j <= k
SetMin(S) == CHOOSE k \in S : \A j \in S : k <= j

\* what the last draw into the buffers ids wrote; prev when the log has none
\* and prev is still one of the buffers; None after a reallocation
WrittenTo(log, ids, prev) ==
    LET ks == DrawsTo(log, ids)
    IN  IF ks # {}
        THEN [texture |-> log[SetMax(ks)].target, image |-> log[SetMax(ks)].out]
        ELSE IF prev.texture \in ids THEN prev ELSE None

Buffers(m, f) == {m.s[f].read, m.s[f].write}

\* the positions of the relax draws of a log
RelaxDraws(log) == {k \in 1 .. Len(log) : log[k].kind = "draw" /\ log[k].prog = "pressure"}

\* the world m is the state after the call c
Effect(m, c) ==
    /\ solver' = m.s
    /\ gl' = m.g
    /\ passLog' = m.log
    /\ call' = c
    /\ calls' = calls + 1
    /\ written' = [f \in Fields |-> WrittenTo(m.log, Buffers(m, f), written[f])]
    /\ lastJacobi' =
          CASE c.op \in {"step", "render"} ->
                 IF RelaxDraws(m.log) = {} THEN lastJacobi
                 ELSE [texture |-> m.log[SetMax(RelaxDraws(m.log))].target,
                       image |-> m.log[SetMax(RelaxDraws(m.log))].out]
            [] c.op \in {"addVelocitySplat", "addDyeSplat", "pointermove"} -> lastJacobi
            [] OTHER -> None
    /\ UNCHANGED options

\* the same for a call that leaves the page as it is
Becomes(m, c) == Effect(m, c) /\ UNCHANGED page

\* some sample of velocity, dye or pressure is not zero
Dirty ==
    \E f \in Fields : \E id \in {solver[f].read, solver[f].write} :
        \E c \in DOMAIN gl.tex[id].data : \E k \in 1 .. gl.tex[id].ch :
            gl.tex[id].data[c][k] # 0

\* A behaviour has at most MaxCalls calls. After OUT_OF_MEMORY the state of a
\* GL context is undefined, so a behaviour is followed up to the call that ran
\* out of memory and no further.
Ready == calls < MaxCalls /\ gl.error = "NO_ERROR"

Step ==
    /\ Ready
    /\ \E dt \in DtSet : \E m \in {step(World, dt)} :
          Becomes(m, [op |-> "step", dt |-> dt])
    /\ UNCHANGED <<resizes, display>>

AddVelocitySplat ==
    /\ Ready
    /\ \E point \in Points, force \in Forces :
          \E m \in {addVelocitySplat(World, point, force)} :
              Becomes(m, [op |-> "addVelocitySplat", point |-> point, force |-> force])
    /\ UNCHANGED <<resizes, display>>

AddDyeSplat ==
    /\ Ready
    /\ \E point \in Points, color \in SplatColors :
          \E m \in {addDyeSplat(World, point, color)} :
              Becomes(m, [op |-> "addDyeSplat", point |-> point, color |-> color])
    /\ UNCHANGED <<resizes, display>>

ClearTarget ==
    /\ Ready
    /\ \E target \in Fields, value \in ClearValues :
          \E m \in {clearTarget(World, target, value)} :
              Becomes(m, [op |-> "clearTarget", target |-> target, value |-> value])
    /\ UNCHANGED <<resizes, display>>

\* solver.resize(dpr); the call record notes whether a field held a nonzero
\* sample before, and the sizes before
Resize ==
    /\ Ready
    /\ resizes < MaxResizes
    /\ \E dpr \in Dprs : \E m \in {resize(World, dpr)} :
          Becomes(m,
                  [op |-> "resize", dpr |-> dpr, dirty |-> Dirty,
                   from |-> <<solver.settings.simSize, solver.settings.dyeSize>>])
    /\ resizes' = resizes + 1
    /\ UNCHANGED display

\* one animation frame: render(now)
Render ==
    /\ page.frames
    /\ Ready
    /\ \E delta \in Deltas : \E m \in {render(World, delta)} :
              /\ Becomes(m, [op |-> "render", dt |-> Min(delta, 16)])
              /\ display' = [texture |-> BoundTexture(m, 0),
                              image |-> ImageOf(m, BoundTexture(m, 0))]
    /\ UNCHANGED resizes

\* the window's resize event
WindowResize ==
    /\ "resize" \in page.listeners
    /\ Ready
    /\ resizes < MaxResizes
    /\ \E dpr \in {<<3, 2>>} : \E m \in {windowResize(World, dpr)} :
          Becomes(m,
                  [op |-> "windowResize", dpr |-> dpr, dirty |-> Dirty,
                   from |-> <<solver.settings.simSize, solver.settings.dyeSize>>])
    /\ resizes' = resizes + 1
    /\ UNCHANGED display

Next ==
    \/ Step
    \/ AddVelocitySplat
    \/ AddDyeSplat
    \/ ClearTarget
    \/ Resize
    \/ Render
    \/ WindowResize

Spec == Init /\ [][Next]_vars

(* ----------------------------------------------------------------- page *)
\* the events the browser delivers: a pointer or touch position in CSS pixels.
\* A press lands on the canvas; a move may leave the window during a drag.
DownEvents == {[clientX |-> 2, clientY |-> 6]}
MoveEvents == {[clientX |-> 2, clientY |-> 6], [clientX |-> 6, clientY |-> 2],
               [clientX |-> 12, clientY |-> 12]}

\* the page before main.js ran, in a browser of any kind
InitPage ==
    \E env \in Environments :
        /\ page = LoadingPage(env)
        /\ solver = NoSolver
        /\ gl = NoContext
        /\ display = None
        /\ options = PageOptions
        /\ passLog = << >>
        /\ call = [op |-> "none"]
        /\ calls = 0
        /\ resizes = 0
        /\ written = [f \in Fields |-> None]
        /\ lastJacobi = None

\* the page loads: main.js runs from its first line to its last, or to a throw
Load ==
    /\ page.phase = "loading"
    /\ \E color \in Colors : \E r \in {main(page.env, color)} :
          /\ page' = r.page
          /\ solver' = r.m.s
          /\ gl' = r.m.g
          /\ passLog' = r.m.log
          /\ written' = IF r.page.phase = "running"
                         THEN [f \in Fields |-> WrittenTo(r.m.log, Buffers(r.m, f), None)]
                         ELSE written
    /\ call' = [op |-> "load"]
    /\ UNCHANGED <<display, options, calls, resizes, lastJacobi>>

\* a pointerdown on the canvas or a touchstart
PointerDown ==
    /\ \E type \in {"pointerdown", "touchstart"} : type \in page.listeners
    /\ Ready
    /\ \E event \in DownEvents, color \in Colors :
          /\ page' = [page EXCEPT
                         !.pointerState = handlePointerDown(@, event, color)]
          /\ call' = [op |-> "pointerdown", event |-> event]
    /\ passLog' = << >>
    /\ calls' = calls + 1
    /\ UNCHANGED <<solver, gl, display, options, resizes, written, lastJacobi>>

\* a pointermove or a touchmove
PointerMove ==
    /\ \E type \in {"pointermove", "touchmove"} : type \in page.listeners
    /\ Ready
    /\ \E event \in MoveEvents :
          \E r \in {handlePointerMove(page.pointerState, World, event)} :
              /\ Effect(r.m, [op |-> "pointermove", event |-> event,
                               isDown |-> page.pointerState.isDown,
                               last |-> page.pointerState.last])
              /\ page' = [page EXCEPT !.pointerState = r.pointerState]
    /\ UNCHANGED <<resizes, display>>

\* a pointerup or a touchend
PointerUp ==
    /\ \E type \in {"pointerup", "touchend"} : type \in page.listeners
    /\ Ready
    /\ page' = [page EXCEPT !.pointerState = handlePointerUp(@)]
    /\ call' = [op |-> "pointerup"]
    /\ passLog' = << >>
    /\ calls' = calls + 1
    /\ UNCHANGED <<solver, gl, display, options, resizes, written, lastJacobi>>

\* the page: it loads, then the browser delivers events and frames
NextPage ==
    \/ Load
    \/ PointerDown
    \/ PointerMove
    \/ PointerUp
    \/ WindowResize
    \/ Render

SpecPage == InitPage /\ [][NextPage]_vars

\* how many texture images the context can still allocate when a resize
\* begins: initBuffers asks for eight
Rooms == 0 .. 7

\* solver.resize(dpr) on a context that runs out of memory during the call.
\* The call record notes the room there was.
ResizeOutOfMemory ==
    /\ Ready
    /\ resizes < MaxResizes
    /\ \E dpr \in Dprs, room \in Rooms :
          \E m \in {resize([World EXCEPT !.g.memory = room], dpr)} :
              Becomes(m,
                      [op |-> "resize", dpr |-> dpr, dirty |-> Dirty,
                       from |-> <<solver.settings.simSize, solver.settings.dyeSize>>,
                       room |-> room])
    /\ resizes' = resizes + 1
    /\ UNCHANGED display

\* the calls of Next, and resizes that run out of memory
NextOutOfMemory ==
    \/ Next
    \/ ResizeOutOfMemory

SpecOutOfMemory == Init /\ [][NextOutOfMemory]_vars

(* ---------------------------------------------- the derivative kernels *)
\* The divergence, curl and gradient passes applied to a solver whose
\* velocity and pressure hold the samples of a linear field.

\* the coarse grid is CoarseSize x CoarseSize, the fine one twice that
CoarseSize == 4
\* the slopes of the linear fields
Slopes == {-2, 0, 2}
\* <<a, b, c, d>>: velocity (a x + b y, c x + d y), pressure a x + b y
LinearFields == Slopes \X Slopes \X Slopes \X Slopes

\* a x + b y at the centre of cell c of an N x N grid
LinearSample(a, b, c, N) ==
    Quant(Q * (a * (2 * c[1] + 1) + b * (2 * c[2] + 1)), 2 * N)

GridOptions(N) ==
    [simSize |-> N, dyeSize |-> 1,
     densityDissipation |-> <<197, 200>>, velocityDissipation |-> <<197, 200>>,
     pressureIterations |-> 1, vorticity |-> 30, splatRadius |-> <<1, 4>>]

\* a solver of an N x N grid whose velocity and pressure read buffers hold
\* the field f
Sampled(N, f) ==
    Then(constructor(GridOptions(N)), LAMBDA m :
        [m EXCEPT
            !.g.tex[m.s.velocity.read].data =
                Image([c \in Cells(N, N) |-> <<LinearSample(f[1], f[2], c, N),
                                               LinearSample(f[3], f[4], c, N)>>]),
            !.g.tex[m.s.pressure.read].data =
                Image([c \in Cells(N, N) |-> <<LinearSample(f[1], f[2], c, N)>>])])

DerivativeOps == {"computeDivergence", "computeCurl", "subtractGradient"}

\* the pass of that name
Pass(op, m) ==
    CASE op = "computeDivergence" -> computeDivergence(m)
      [] op = "computeCurl"       -> computeCurl(m)
      [] op = "subtractGradient"  -> subtractGradient(m)

InitDerivatives ==
    \E f \in LinearFields : \E m \in {Sampled(CoarseSize, f)} :
            /\ solver = m.s
            /\ gl = m.g
            /\ display = None
            /\ options = GridOptions(CoarseSize)
            /\ passLog = << >>
            /\ call = [op |-> "new", field |-> f]
            /\ calls = 0
            /\ resizes = 0
            /\ written = [g \in Fields |-> None]
            /\ lastJacobi = None
            /\ page = RunningPage(Supporting, <<Q, 0, 0>>)

ComputeDivergence ==
    /\ Ready
    /\ \E m \in {computeDivergence(World)} :
          Becomes(m, [op |-> "computeDivergence", field |-> call.field])
    /\ UNCHANGED <<resizes, display>>

ComputeCurl ==
    /\ Ready
    /\ \E m \in {computeCurl(World)} :
          Becomes(m, [op |-> "computeCurl", field |-> call.field])
    /\ UNCHANGED <<resizes, display>>

SubtractGradient ==
    /\ Ready
    /\ \E m \in {subtractGradient(World)} :
          Becomes(m, [op |-> "subtractGradient", field |-> call.field])
    /\ UNCHANGED <<resizes, display>>

NextDerivatives ==
    \/ ComputeDivergence
    \/ ComputeCurl
    \/ SubtractGradient

SpecDerivatives == InitDerivatives /\ [][NextDerivatives]_vars

(* ----------------------------------------------------------- a scenario *)
\* Solvers of several sizes, among them the 64 x 64 simulation grid with the
\* 128 x 128 dye grid, with a splat radius of 0.001; each gets dye splats at
\* the centre and steps of 16 ms.

\* how many calls a solver of the scenario gets
MaxScenarioCalls == 2

ScenarioSizes == {<<1, 2>>, <<2, 3>>, <<2, 4>>, <<4, 8>>, <<64, 128>>}

\* the options over DEFAULTS: the sizes and the radius; the larger grids are
\* tried with one relax iteration and the default dissipation only
ScenarioConfigs ==
    {[simSize |-> sz[1], dyeSize |-> sz[2],
      densityDissipation |-> d, velocityDissipation |-> <<197, 200>>,
      pressureIterations |-> n, vorticity |-> 30, splatRadius |-> <<1, 1000>>] :
          sz \in {z \in ScenarioSizes : z[2] <= 4},
          d \in {<<197, 200>>, <<1, 1>>}, n \in 0 .. MaxIterations}
    \cup
    {[simSize |-> sz[1], dyeSize |-> sz[2],
      densityDissipation |-> <<197, 200>>, velocityDissipation |-> <<197, 200>>,
      pressureIterations |-> 1, vorticity |-> 30, splatRadius |-> <<1, 1000>>] :
          sz \in {z \in ScenarioSizes : z[2] > 4}}

\* the centre (0.5, 0.5), in units of 1/PointDen
Centre == <<PointDen \div 2, PointDen \div 2>>

InitScenario ==
    \E opts \in ScenarioConfigs : \E m \in {constructor(opts)} :
            /\ solver = m.s
            /\ gl = m.g
            /\ display = None
            /\ options = opts
            /\ passLog = << >>
            /\ call = [op |-> "new"]
            /\ calls = 0
            /\ resizes = 0
            /\ written = [f \in Fields |-> None]
            /\ lastJacobi = None
            /\ page = RunningPage(Supporting, <<Q, 0, 0>>)

\* the log of the scenario keeps which draws ran, with their programs,
\* targets and uniforms, and leaves out the images they read and wrote
Brief(m) ==
    [m EXCEPT !.log = [k \in DOMAIN m.log |->
        [x \in DOMAIN m.log[k] |->
            IF x \in {"inData", "out"} THEN None ELSE m.log[k][x]]]]

SplatAtCentre ==
    /\ calls < MaxScenarioCalls
    /\ \E color \in Colors : \E m \in {Brief(addDyeSplat(World, Centre, color))} :
          Becomes(m, [op |-> "addDyeSplat", point |-> Centre, color |-> color])
    /\ UNCHANGED <<resizes, display>>

StepOfAFrame ==
    /\ calls < MaxScenarioCalls
    /\ \E m \in {Brief(step(World, 16))} : Becomes(m, [op |-> "step", dt |-> 16])
    /\ UNCHANGED <<resizes, display>>

NextScenario ==
    \/ SplatAtCentre
    \/ StepOfAFrame

SpecScenario == InitScenario /\ [][NextScenario]_vars

(* ------------------------------------------------------------- properties *)
StepOps == {"step", "render"}

\* the draws of the last call, in order
Draws == SelectSeq(passLog, LAMBDA e : e.kind = "draw")

\* the buffers of the field f of the solver as it is now
FieldBuffers(f) == {solver[f].read, solver[f].write}

\* the field or single texture a texture belongs to, "" for none
OwnerOf(id) ==
    CASE id \in FieldBuffers("velocity") -> "velocity"
      [] id \in FieldBuffers("dye") -> "dye"
      [] id \in FieldBuffers("pressure") -> "pressure"
      [] id = solver.curl -> "curl"
      [] id = solver.divergence -> "divergence"
      [] OTHER -> ""

NonZero(image) == \E c \in DOMAIN image : \E k \in DOMAIN image[c] : image[c][k] # 0

\* the stages of a step with n relax iterations: program and what it writes
ExpectedStages(n) ==
    <<  <<"advect", "velocity">>, <<"advect", "dye">>, <<"curl", "curl">>,
        <<"vorticity", "velocity">>, <<"divergence", "divergence">> >>
    \o [k \in 1 .. n |-> <<"pressure", "pressure">>]
    \o << <<"gradient", "velocity">> >>

\* C1: a step, for any dt and any iteration count N >= 0, runs exactly advect
\* velocity, advect dye, curl, vorticity, divergence, N relax passes and the
\* gradient subtraction, in that order, none of them refused, and returns with
\* the default framebuffer bound.
C1_StepRunsItsStagesInOrder ==
    call.op \in StepOps =>
        /\ Len(Draws) = 6 + solver.settings.pressureIterations
        /\ \A k \in 1 .. Len(Draws) :
              /\ <<Draws[k].prog, OwnerOf(Draws[k].target)>>
                    = ExpectedStages(solver.settings.pressureIterations)[k]
              /\ ~Draws[k].rejected
        /\ gl.fbo = 0

C1_Witness ==
    /\ call.op = "step"
    /\ call.dt < 0
    /\ solver.settings.pressureIterations = MaxIterations
    /\ Len(Draws) = 6 + MaxIterations

\* the last draw before position k of the log that wrote the field f; 0 if none
LastDrawBefore(log, k, f) ==
    LET ks == {i \in DrawsTo(log, FieldBuffers(f)) : i < k}
    IN  IF ks = {} THEN 0 ELSE SetMax(ks)

\* every read of a field in the last call, after a draw into the field in the
\* same call, read the buffer and the image that draw wrote
ReadsWithinCall ==
    \A k \in 1 .. Len(passLog) : \A f \in Fields :
        passLog[k].kind = "draw" =>
            \A j \in 1 .. Len(passLog[k].ins) :
                LET i == LastDrawBefore(passLog, k, f)
                IN  (passLog[k].ins[j] \in FieldBuffers(f) /\ i # 0) =>
                        /\ passLog[k].ins[j] = passLog[i].target
                        /\ passLog[k].inData[j] = passLog[i].out

\* at rest the read buffer of a field is the buffer its last pass wrote
ReadHoldsWritten ==
    \A f \in Fields :
        written[f] # None =>
            /\ solver[f].read = written[f].texture
            /\ gl.tex[solver[f].read].data = written[f].image

\* the frame just rendered showed the read buffer of dye with the image the
\* last pass on dye wrote
DisplayIsFresh ==
    call.op = "render" =>
        /\ display.texture = solver.dye.read
        /\ display.image = written["dye"].image

\* the first read of a field in a call reads what the last pass of an earlier
\* call wrote to it, unless the field was reallocated in between
FirstReadOfCall ==
    \A k \in 1 .. Len(passLog') : \A f \in Fields :
        (/\ passLog'[k].kind = "draw"
         /\ written[f] # None
         /\ written[f].texture \in {solver'[f].read, solver'[f].write}
         /\ \A i \in 1 .. k - 1 :
               passLog'[i].kind = "draw" =>
                   passLog'[i].target \notin {solver'[f].read, solver'[f].write})
        => \A j \in 1 .. Len(passLog'[k].ins) :
              passLog'[k].ins[j] \in {solver'[f].read, solver'[f].write} =>
                  /\ passLog'[k].ins[j] = written[f].texture
                  /\ passLog'[k].inData[j] = written[f].image

\* C2: after a pass writes a field and swaps, the next read of the field, by
\* a later pass of the same call, by a pass of a later call or by the display
\* of the frame, gets the buffer and the data that pass wrote; the display
\* samples the current read buffer of dye, never an older one.
C2_NextReadSeesLastWrite ==
    /\ [](ReadsWithinCall /\ ReadHoldsWritten /\ DisplayIsFresh)
    /\ [][FirstReadOfCall]_vars

C2_Witness ==
    /\ call.op = "render"
    /\ resizes > 0
    /\ NonZero(display.image)

\* how often the last call swapped the field f
SwapsOf(f) == Cardinality({k \in 1 .. Len(passLog) : passLog[k].kind = "swap" /\ passLog[k].field = f})

\* a call that does not reallocate leaves each field its two buffers, exchanged
\* once per swap
SwapOnlyExchanges ==
    resizes' = resizes =>
        \A f \in Fields :
            LET odd == Cardinality({k \in 1 .. Len(passLog') :
                          passLog'[k].kind = "swap" /\ passLog'[k].field = f}) % 2 = 1
            IN  /\ solver'[f].read = IF odd THEN solver[f].write ELSE solver[f].read
                /\ solver'[f].write = IF odd THEN solver[f].read ELSE solver[f].write

\* no draw of the last call sampled the texture it rendered into
TargetIsNoInput ==
    \A k \in 1 .. Len(Draws) :
        /\ ~Draws[k].rejected
        /\ \A j \in 1 .. Len(Draws[k].ins) : Draws[k].ins[j] # Draws[k].target

\* C3: in every pass the render target is none of the textures the pass
\* samples; the read and the write buffer of a field are always two different
\* textures, and a swap only exchanges them.
C3_TargetDistinctFromInputs ==
    /\ [](TargetIsNoInput /\ \A f \in Fields : solver[f].read # solver[f].write)
    /\ [][SwapOnlyExchanges]_vars

\* after a step, unit 1 still holds the texture that is now the write buffer of
\* velocity, and no pass sampled it while rendering into it
C3_Witness ==
    /\ call.op = "step"
    /\ solver.settings.pressureIterations > 0
    /\ gl.units[2] = solver.velocity.write
    /\ SwapsOf("velocity") = 3

\* the draw at position k of the log is followed at once by the swap of the
\* double-buffered field whose write buffer it rendered into
SwapsAtOnce(k) ==
    /\ k < Len(passLog)
    /\ passLog[k + 1].kind = "swap"
    /\ passLog[k + 1].target = passLog[k].target
    /\ passLog[k + 1].field = OwnerOf(passLog[k].target)
    /\ passLog[k + 1].field \in Fields

\* the draw at position k of the log rendered into the single texture of its
\* name and no swap follows it
WritesSingle(k) ==
    /\ passLog[k].target = solver[passLog[k].prog]
    /\ OwnerOf(passLog[k].target) = passLog[k].prog
    /\ k < Len(passLog) => passLog[k + 1].kind = "draw"

InputIndex(p, name) == CHOOSE j \in 1 .. Len(Samplers(p)) : Samplers(p)[j] = name

\* the texture and the image the draw e sampled through the sampler `name`
InputOf(e, name) ==
    [texture |-> e.ins[InputIndex(e.prog, name)],
     image |-> e.inData[InputIndex(e.prog, name)]]

OutputOf(e) == [texture |-> e.target, image |-> e.out]

\* a step with relax passes starts them from the pressure the field held when
\* the step began: the result of the last relax pass of the step before, when
\* no clear and no resize came between
StepStartsFromStoredPressure ==
    (call'.op \in StepOps /\ RelaxDraws(passLog') # {}) =>
        LET first == InputOf(passLog'[SetMin(RelaxDraws(passLog'))], "uPressure")
        IN  /\ first.texture = solver.pressure.read
            /\ first.image = gl.tex[solver.pressure.read].data
            /\ lastJacobi # None => first = lastJacobi

\* a step without relax passes and a splat leave pressure as it is
OthersKeepPressure ==
    \/ call'.op \in {"addVelocitySplat", "addDyeSplat"}
    \/ call'.op \in StepOps /\ RelaxDraws(passLog') = {}
    => /\ solver'.pressure = solver.pressure
       /\ \A id \in FieldBuffers("pressure") : gl'.tex[id] = gl.tex[id]

\* C5: a step never resets pressure. The first relax pass of a step reads the
\* pressure the last relax pass of the step before wrote, splats in between
\* leave it alone, and only a clear or a resize ends the carry-over.
C5_PressureCarriesOver ==
    [][StepStartsFromStoredPressure /\ OthersKeepPressure]_vars

\* a step whose first relax pass read a nonzero pressure left by an earlier
\* step, with a splat between the two
C5_Witness ==
    /\ call.op \in StepOps
    /\ RelaxDraws(passLog) # {}
    /\ NonZero(InputOf(passLog[SetMin(RelaxDraws(passLog))], "uPressure").image)
    /\ lastJacobi # None

\* the position of the one draw of program p in the log of a step
DrawOf(p) == CHOOSE k \in 1 .. Len(passLog) : passLog[k].kind = "draw" /\ passLog[k].prog = p

\* C6: a step runs exactly pressureIterations relax passes; each samples the
\* divergence the divergence stage of the same step wrote; each but the first
\* samples the pressure the pass before wrote; the gradient subtraction samples
\* the pressure of the last relax pass and the velocity vorticity wrote.
C6_RelaxChain ==
    call.op \in StepOps =>
        LET relax == RelaxDraws(passLog)
            grad  == passLog[DrawOf("gradient")]
        IN  /\ Cardinality(relax) = solver.settings.pressureIterations
            /\ \A k \in relax :
                  /\ DrawOf("divergence") < k
                  /\ InputOf(passLog[k], "uDivergence")
                        = OutputOf(passLog[DrawOf("divergence")])
                  /\ k # SetMin(relax) =>
                        InputOf(passLog[k], "uPressure")
                            = OutputOf(passLog[SetMax({i \in relax : i < k})])
            /\ relax # {} =>
                  InputOf(grad, "uPressure") = OutputOf(passLog[SetMax(relax)])
            /\ InputOf(grad, "uVelocity") = OutputOf(passLog[DrawOf("vorticity")])

\* a step of several relax passes over a divergence that is not zero, whose
\* passes produced different pressures
C6_Witness ==
    /\ call.op = "step"
    /\ Cardinality(RelaxDraws(passLog)) = MaxIterations
    /\ NonZero(passLog[DrawOf("divergence")].out)
    /\ \E i, k \in RelaxDraws(passLog) : passLog[i].out # passLog[k].out

ResizeOps == {"resize", "windowResize"}

\* the texture id holds a sample at every cell of a width x height grid, and
\* every one of them is zero
ZeroEverywhere(id, size) ==
    /\ DOMAIN gl.tex[id].data = Cells(size.width, size.height)
    /\ ~NonZero(gl.tex[id].data)

\* C7: right after construction and right after every resize, whatever the
\* fields held before, the read and the write buffer of velocity, dye and
\* pressure are zero at every sample.
C7_ZeroAfterAllocation ==
    call.op \in {"new"} \cup ResizeOps =>
        \A f \in Fields : \A id \in FieldBuffers(f) : ZeroEverywhere(id, solver[f].size)

\* a resize to the sizes the solver already had, of fields that were not zero
C7_Witness ==
    /\ call.op = "resize"
    /\ call.dirty
    /\ call.from = <<solver.settings.simSize, solver.settings.dyeSize>>

TextureSize(id) == [width |-> gl.tex[id].width, height |-> gl.tex[id].height]

\* the configured sizes, the size of each field and of each of its textures
Dimensions ==
    [simSize |-> solver.settings.simSize,
     dyeSize |-> solver.settings.dyeSize,
     fields |-> [f \in Fields |->
                    <<solver[f].size, TextureSize(solver[f].read),
                      TextureSize(solver[f].write)>>],
     divergence |-> TextureSize(solver.divergence),
     curl |-> TextureSize(solver.curl)]

\* C8: only resize changes dimensions: a step, a splat, a clear and a frame
\* leave the configured sizes and the dimensions of every field as they were.
C8_OnlyResizeChangesDimensions ==
    [][call'.op \notin ResizeOps => Dimensions' = Dimensions]_vars

\* a step on fields a resize had given other sizes than the constructed ones
C8_Witness ==
    /\ call.op = "step"
    /\ resizes > 0
    /\ solver.settings.simSize # options.simSize
    /\ solver.velocity.size.width = solver.settings.simSize

\* C9: in every state the two buffers of a field have the dimensions of the
\* field, and pressure, divergence and curl have the dimensions of velocity;
\* dye is free to differ.
C9_DimensionsAgree ==
    /\ \A f \in Fields : \A id \in FieldBuffers(f) :
          /\ TextureSize(id) = solver[f].size
          /\ DOMAIN gl.tex[id].data = Cells(solver[f].size.width, solver[f].size.height)
    /\ solver.pressure.size = solver.velocity.size
    /\ TextureSize(solver.divergence) = solver.velocity.size
    /\ TextureSize(solver.curl) = solver.velocity.size

\* after a resize and further calls, with dye finer than velocity
C9_Witness ==
    /\ resizes > 0
    /\ call.op \in StepOps
    /\ solver.dye.size.width > solver.velocity.size.width
    /\ solver.velocity.size.width > options.simSize

\* r is n/d rounded to the nearest integer, halves up
IsRounded(r, n, d) == 2 * r * d - d <= 2 * n /\ 2 * n < 2 * r * d + d

\* max(1, dpr) as a fraction
ClampedScale(dpr) == IF dpr[1] < dpr[2] THEN <<1, 1>> ELSE dpr

\* C10: after resize(s) the side of the velocity grid is the constructed
\* simSize times max(1, s), rounded, and the side of the dye grid the
\* constructed dyeSize times max(1, s), rounded, whatever the sizes were
\* before: resizes do not compound.
C10_ResizeScalesBaseSize ==
    call.op \in ResizeOps =>
        LET c == ClampedScale(call.dpr)
        IN  /\ IsRounded(solver.velocity.size.width, options.simSize * c[1], c[2])
            /\ IsRounded(solver.dye.size.width, options.dyeSize * c[1], c[2])
            /\ solver.velocity.size.height = solver.velocity.size.width
            /\ solver.dye.size.height = solver.dye.size.width
            /\ solver.settings.simSize = solver.velocity.size.width
            /\ solver.settings.dyeSize = solver.dye.size.width

\* the same resize a second time: the sizes are those of the first
C10_Witness ==
    /\ call.op = "resize"
    /\ resizes = 2
    /\ call.dpr = <<3, 2>>
    /\ call.from # <<options.simSize, options.dyeSize>>
    /\ call.from = <<solver.settings.simSize, solver.settings.dyeSize>>

\* every grid of the solver as it is now has at least one cell each way
AtLeastOneByOne ==
    /\ solver.settings.simSize >= 1 /\ solver.settings.dyeSize >= 1
    /\ \A f \in Fields :
          /\ solver[f].size.width >= 1 /\ solver[f].size.height >= 1
          /\ \A id \in FieldBuffers(f) :
                /\ gl.tex[id].width >= 1 /\ gl.tex[id].height >= 1
                /\ DOMAIN gl.tex[id].data # {}
    /\ \A id \in {solver.divergence, solver.curl} :
          /\ gl.tex[id].width >= 1 /\ gl.tex[id].height >= 1
          /\ DOMAIN gl.tex[id].data # {}

\* C11: after resize(s), for every scale factor s, zero and negative ones
\* included, and every base resolution a solver was constructed with, every
\* field and every texture is at least 1 x 1 (the scale is clamped to 1 from
\* below; no resize is refused).
C11_ResizeNeverBelowOneByOne ==
    call.op \in ResizeOps => AtLeastOneByOne

\* a resize by zero or by a negative factor of a solver with one-cell grids
C11_Witness ==
    /\ call.op = "resize"
    /\ call.dpr[1] <= 0
    /\ options.simSize = 1
    /\ solver.velocity.size = [width |-> 1, height |-> 1]
    /\ solver.dye.size = [width |-> 1, height |-> 1]

\* the textures the solver refers to
SolverTextures ==
    UNION {FieldBuffers(f) : f \in Fields} \cup {solver.divergence, solver.curl}

\* C12 as stated: a resize during which an allocation fails leaves the solver
\* exactly as it was before the call: the configured sizes, every field
\* (velocity, dye, divergence, pressure, curl) and the contents of its textures.
C12_FailedResizeLeavesSolverIntact ==
    [][(call'.op = "resize" /\ gl'.error = "OUT_OF_MEMORY") =>
          /\ solver' = solver
          /\ \A id \in SolverTextures :
                id \in DOMAIN gl'.tex /\ gl'.tex[id] = gl.tex[id]]_vars

\* the browser lacks WebGL2 or a float extension, or a kernel does not build
Unsupported(env) ==
    ~env.webgl2 \/ ~env.floatExt \/ ~env.linearExt \/ env.broken # <<"", "">>

\* C13: in a browser without WebGL2 or without a float texture extension, or
\* where a kernel fails to compile or link, the initialization of the page
\* ends in a thrown error that carries a message, and in every state of that
\* page no listener is installed, no frame is requested, no solver exists,
\* and no step, splat, clear or display pass was executed.
C13_FailedInitializationRunsNothing ==
    Unsupported(page.env) =>
        /\ page.phase \in {"loading", "failed"}
        /\ page.phase = "failed" => page.error # << >> /\ page.error[1] # ""
        /\ page.listeners = {} /\ ~page.frames
        /\ solver = NoSolver
        /\ passLog = << >> /\ display = None /\ calls = 0
        /\ call.op \in {"none", "load"}

\* a page that failed because the pressure kernel did not link
C13_Witness ==
    /\ page.phase = "failed"
    /\ page.env.webgl2 /\ page.env.floatExt /\ page.env.linearExt
    /\ page.env.broken = <<"pressure", "link">>
    /\ call.op = "load"

\* a point with a coordinate outside [0, 1], and the point clamped into it
OutOfRange(point) == \E k \in 1 .. 2 : point[k] < 0 \/ point[k] > PointDen
ClampPoint(point) == <<Clamp(point[1], 0, PointDen), Clamp(point[2], 0, PointDen)>>

\* what a read of the field f returns in the world m
ReadImage(m, f) == m.g.tex[m.s[f].read].data

\* C14 as stated: a splat at a point outside [0, 1] x [0, 1] leaves its field
\* as the same splat at the point clamped into [0, 1] x [0, 1] leaves it.
C14_SplatClampsItsPoint ==
    [][/\ (call'.op = "addVelocitySplat" /\ OutOfRange(call'.point)) =>
              gl'.tex[solver'.velocity.read].data
                  = ReadImage(addVelocitySplat(World, ClampPoint(call'.point),
                                               call'.force), "velocity")
       /\ (call'.op = "addDyeSplat" /\ OutOfRange(call'.point)) =>
              gl'.tex[solver'.dye.read].data
                  = ReadImage(addDyeSplat(World, ClampPoint(call'.point),
                                          call'.color), "dye")]_vars

\* the last call was one draw of program p into what was the write buffer of
\* the field f, followed by one swap of f, and nothing more
OnePassOneSwap(p, f) ==
    /\ Len(passLog') = 2
    /\ passLog'[1].kind = "draw" /\ passLog'[1].prog = p /\ ~passLog'[1].rejected
    /\ passLog'[1].target = solver[f].write
    /\ passLog'[1].ins = <<solver[f].read>>
    /\ passLog'[2].kind = "swap" /\ passLog'[2].field = f
    /\ solver'[f].read = solver[f].write /\ solver'[f].write = solver[f].read
    \* the buffer the pass read is as it was: the impulse is no direct write
    /\ gl'.tex[solver[f].read] = gl.tex[solver[f].read]

\* the last call left everything of the solver but the field f as it was: the
\* settings, the other fields, and the contents of their textures
TouchesOnly(f) ==
    /\ \A k \in DOMAIN solver : k # f => solver'[k] = solver[k]
    /\ \A id \in SolverTextures \ FieldBuffers(f) :
          id \in DOMAIN gl'.tex /\ gl'.tex[id] = gl.tex[id]

\* C15: addVelocitySplat is one velocitySplat pass into velocity and one swap
\* of velocity, and leaves dye, pressure, divergence and curl as they were;
\* addDyeSplat is one splat pass into dye and one swap of dye, and leaves
\* velocity, pressure, divergence and curl as they were.
C15_ImpulseTouchesOnlyItsField ==
    [][/\ call'.op = "addVelocitySplat" =>
              OnePassOneSwap("velocitySplat", "velocity") /\ TouchesOnly("velocity")
       /\ call'.op = "addDyeSplat" =>
              OnePassOneSwap("splat", "dye") /\ TouchesOnly("dye")]_vars

\* a dye splat that changed dye while velocity, pressure, curl and divergence
\* held values that are not zero
C15_Witness ==
    /\ call.op = "addDyeSplat"
    /\ NonZero(gl.tex[solver.dye.read].data)
    /\ NonZero(gl.tex[solver.velocity.read].data)
    /\ NonZero(gl.tex[solver.pressure.read].data)
    /\ NonZero(gl.tex[solver.curl].data)

\* the solver object of a world and the contents of the textures it refers to
FieldState(m) ==
    [s |-> m.s,
     tex |-> [id \in {m.s.velocity.read, m.s.velocity.write, m.s.dye.read,
                       m.s.dye.write, m.s.pressure.read, m.s.pressure.write,
                       m.s.divergence, m.s.curl} |-> m.g.tex[id]]]

\* the world as it is after the transition
WorldAfter == [s |-> solver', g |-> gl', log |-> << >>]

\* a velocity splat just made, followed by a dye splat, leaves the fields as
\* the dye splat followed by that velocity splat would have left them, and a
\* step after either leaves the same fields
SplatsCommute ==
    call'.op = "addVelocitySplat" =>
        \A q \in Points, c \in Colors :
            \A vd \in {addDyeSplat(WorldAfter, q, c)} :
            \A dv \in {addVelocitySplat(addDyeSplat(World, q, c),
                                         call'.point, call'.force)} :
                /\ FieldState(vd) = FieldState(dv)
                /\ \A dt \in DtSet : FieldState(step(vd, dt)) = FieldState(step(dv, dt))

\* C16: for all points p and q, forces f and colors c, addVelocitySplat(p, f)
\* followed by addDyeSplat(q, c) leaves every field with the same contents as
\* the two calls in the opposite order, and a step() after either order gives
\* the same fields.
C16_SplatsCommute ==
    [][SplatsCommute]_vars

\* a velocity splat on a velocity and a dye that were not zero
C16_Witness ==
    /\ call.op = "addVelocitySplat"
    /\ NonZero(gl.tex[solver.velocity.write].data)
    /\ NonZero(gl.tex[solver.dye.read].data)
    /\ gl.tex[solver.velocity.read].data # gl.tex[solver.velocity.write].data

\* what a read of the target of the clear just made returned before it, and
\* what it returns now
ClearedBefore == gl.tex[solver[call'.target].read]
ClearedAfter == gl'.tex[solver'[call'.target].read]

\* every sample the field now returns is the sample it returned before,
\* times the value, stored at the resolution of the texture
ClearMultiplies ==
    call'.op = "clearTarget" =>
        /\ DOMAIN ClearedAfter.data = DOMAIN ClearedBefore.data
        /\ \A c \in DOMAIN ClearedBefore.data : \A k \in 1 .. ClearedBefore.ch :
              IsRounded(ClearedAfter.data[c][k],
                        ClearedBefore.data[c][k] * call'.value[1], call'.value[2])
        /\ call'.value = <<0, 1>> => ~NonZero(ClearedAfter.data)
        /\ call'.value = <<1, 1>> => ClearedAfter.data = ClearedBefore.data

\* C17: clearTarget(field, m) multiplies every sample of the field by m: after
\* clearTarget(field, 0) every read of the field returns zero whatever it held,
\* also when it was cleared before, and clearTarget(field, 1) leaves what the
\* field returns exactly as it was.
C17_ClearMultiplies ==
    [][ClearMultiplies]_vars

\* a clear by 1 of a field that is not zero: the buffer now read holds what
\* the buffer read before holds
C17_Witness ==
    /\ call.op = "clearTarget"
    /\ call.value = <<1, 1>>
    /\ NonZero(gl.tex[solver[call.target].read].data)
    /\ gl.tex[solver[call.target].read].data = gl.tex[solver[call.target].write].data

RECURSIVE SumOver(_, _)
\* the sum of f over the set S
SumOver(f, S) ==
    IF S = {} THEN 0
    ELSE Then(CHOOSE x \in S : TRUE, LAMBDA c : f[c] + SumOver(f, S \ {c}))

\* the square of the L2 norm of a one-channel image, in units of 1/Q^2
NormSq(image) ==
    SumOver([c \in DOMAIN image |-> image[c][1] * image[c][1]], DOMAIN image)

\* the divergence the step just made computed before its projection, and the
\* divergence of the velocity it left, computed anew
DivergenceBefore == passLog'[CHOOSE k \in 1 .. Len(passLog') :
                                passLog'[k].kind = "draw" /\ passLog'[k].prog = "divergence"].out
DivergenceAfter ==
    Then(computeDivergence(WorldAfter), LAMBDA x : x.g.tex[x.s.divergence].data)

\* C18 as stated, for the iteration counts at hand: when the divergence stage
\* of a step finds a divergence that is not zero, the relax passes (at least
\* one) and the gradient subtraction leave a velocity whose divergence,
\* computed anew, is strictly smaller in L2 norm.
C18_ProjectionReducesDivergence ==
    [][(/\ call'.op \in StepOps
        /\ solver.settings.pressureIterations >= 1
        /\ NonZero(DivergenceBefore))
       => NormSq(DivergenceAfter) < NormSq(DivergenceBefore)]_vars

\* the total magnitude of an image: the sum of |sample| over cells and channels
Magnitude(image) ==
    SumOver([c \in DOMAIN image |->
                SumOver([k \in DOMAIN image[c] |-> Abs(image[c][k])], DOMAIN image[c])],
            DOMAIN image)

\* the product of sample n and the factor d, at the resolution of the texture,
\* differs from n
VisiblyReduced(n, d) == 2 * Abs(n) * (d[2] - d[1]) > d[2]

\* from source to result every sample was multiplied by the factor d; for
\* d < 1 the total magnitude did not grow and got strictly smaller when the
\* product of some sample is visible at the texture's resolution; for d = 1
\* nothing changed
Dissipated(source, result, d) ==
    /\ DOMAIN result = DOMAIN source
    /\ \A c \in DOMAIN source : \A k \in DOMAIN source[c] :
          result[c][k] = Quant(source[c][k] * d[1], d[2])
    /\ d[1] < d[2] =>
          /\ Magnitude(result) <= Magnitude(source)
          /\ (\E c \in DOMAIN source : \E k \in DOMAIN source[c] :
                  VisiblyReduced(source[c][k], d))
                => Magnitude(result) < Magnitude(source)
    /\ d[1] = d[2] => result = source

FarRadii == 3

\* d * d for d = distance(centre of cell c, point) on a W x H grid, as
\* <<numerator, denominator>>
SquaredDistance(point, c, W, H) ==
    <<((PointDen * (2 * c[1] + 1) - 2 * W * point[1]) * H)
          * ((PointDen * (2 * c[1] + 1) - 2 * W * point[1]) * H)
      + ((PointDen * (2 * c[2] + 1) - 2 * H * point[2]) * W)
          * ((PointDen * (2 * c[2] + 1) - 2 * H * point[2]) * W),
      (2 * PointDen * W * H) * (2 * PointDen * W * H)>>

\* cell a is at most as far from the point as cell b
NotFarther(point, a, b, W, H) ==
    SquaredDistance(point, a, W, H)[1] <= SquaredDistance(point, b, W, H)[1]

\* what the splat added to the sample of cell c
Added(source, result, c) ==
    <<result[c][1] - source[c][1], result[c][2] - source[c][2]>>

\* the influences (in eighths, 8 being 1.0) with which the force gives the
\* amount added
InfluencesOf(added, force) ==
    {w \in 0 .. 8 : added = <<Scaled(force[1], w), Scaled(force[2], w)>>}

\* from source to result each sample gained force times an influence in
\* [0, 1] that is 1 at the point, is not larger at a sample farther from the
\* point, and is 0 at a sample far outside the radius rad
SplatIsLocal(source, result, point, force, rad, W, H) ==
    /\ DOMAIN result = DOMAIN source
    /\ \A c \in DOMAIN source : InfluencesOf(Added(source, result, c), force) # {}
    /\ \A c \in DOMAIN source :
          SquaredDistance(point, c, W, H)[1] = 0 =>
              Added(source, result, c) = force
    /\ \A a \in DOMAIN source : \A b \in DOMAIN source :
          NotFarther(point, a, b, W, H) =>
              \E wa \in InfluencesOf(Added(source, result, a), force) :
              \E wb \in InfluencesOf(Added(source, result, b), force) : wa >= wb
    /\ \A c \in DOMAIN source :
          SquaredDistance(point, c, W, H)[1] * rad[2]
              >= FarRadii * rad[1] * SquaredDistance(point, c, W, H)[2]
          => result[c] = source[c]

\* C20: addVelocitySplat(p, f) adds to every velocity sample f times an
\* influence that is largest (1) at p and never larger at a sample farther
\* from p than at a nearer one, and leaves the samples far outside the splat
\* radius as they were.
C20_VelocitySplatIsLocal ==
    [][call'.op = "addVelocitySplat" =>
          SplatIsLocal(ReadImage(World, "velocity"), ReadImage(WorldAfter, "velocity"),
                       call'.point, call'.force, solver.settings.splatRadius,
                       solver.velocity.size.width, solver.velocity.size.height)]_vars

\* a velocity splat has changed a sample near its point, a farther sample by
\* less, and has left a sample far from it as it was
C20_Witness ==
    /\ call.op = "addVelocitySplat"
    /\ Len(Draws) = 1
    /\ \E a \in DOMAIN Draws[1].out : \E b \in DOMAIN Draws[1].out :
       \E c \in DOMAIN Draws[1].out :
          /\ NotFarther(call.point, a, b, solver.velocity.size.width,
                        solver.velocity.size.height)
          /\ NotFarther(call.point, b, c, solver.velocity.size.width,
                        solver.velocity.size.height)
          /\ Abs(Added(Draws[1].inData[1], Draws[1].out, a)[1])
                > Abs(Added(Draws[1].inData[1], Draws[1].out, b)[1])
          /\ Added(Draws[1].inData[1], Draws[1].out, b)[1] # 0
          /\ Draws[1].out[c] = Draws[1].inData[1][c]

\* the cells of an N x N grid none of whose four neighbours is clamped
Interior(N) == {c \in Cells(N, N) : c[1] \in 1 .. N - 2 /\ c[2] \in 1 .. N - 2}

\* the derivative the pass op computed, from the world before it to the world
\* after it, sampled at the normalized position (xn/xd, yn/yd): the
\* divergence, the curl, or the gradient taken off the velocity
DerivativeAt(op, before, after, xn, xd, yn, yd) ==
    CASE op = "computeDivergence" ->
            <<Bilinear(after.g.tex[after.s.divergence], xn, xd, yn, yd)[1]>>
      [] op = "computeCurl" ->
            <<Bilinear(after.g.tex[after.s.curl], xn, xd, yn, yd)[1]>>
      [] op = "subtractGradient" ->
            <<Bilinear(before.g.tex[before.s.velocity.read], xn, xd, yn, yd)[1]
                - Bilinear(after.g.tex[after.s.velocity.read], xn, xd, yn, yd)[1],
              Bilinear(before.g.tex[before.s.velocity.read], xn, xd, yn, yd)[2]
                - Bilinear(after.g.tex[after.s.velocity.read], xn, xd, yn, yd)[2]>>

\* C21 as stated: the divergence, the curl and the pressure gradient of a
\* linear field computed on the N x N grid equal, at the centre of every
\* interior cell, those computed from the same field on the 2N x 2N grid and
\* sampled at the same normalized position.
C21_DerivativesAreResolutionInvariant ==
    [][(calls = 0 /\ call'.op \in DerivativeOps) =>
          \A fine \in {Sampled(2 * CoarseSize, call.field)} :
          \A after \in {Pass(call'.op, fine)} :
          \A c \in Interior(CoarseSize) :
              DerivativeAt(call'.op, World, WorldAfter,
                           2 * c[1] + 1, 2 * CoarseSize, 2 * c[2] + 1, 2 * CoarseSize)
                = DerivativeAt(call'.op, fine, after,
                               2 * c[1] + 1, 2 * CoarseSize, 2 * c[2] + 1, 2 * CoarseSize)]_vars

\* the calls of a solver that a call record stands for
ReplayedOps == {"step", "render", "addVelocitySplat", "addDyeSplat",
                "clearTarget", "resize", "windowResize"}

\* the call c made on the world m
Replayed(c, m) ==
    CASE c.op = "step"             -> step(m, c.dt)
      [] c.op = "render"           -> render(m, c.dt)
      [] c.op = "addVelocitySplat" -> addVelocitySplat(m, c.point, c.force)
      [] c.op = "addDyeSplat"      -> addDyeSplat(m, c.point, c.color)
      [] c.op = "clearTarget"      -> clearTarget(m, c.target, c.value)
      [] c.op = "resize"           -> resize(m, c.dpr)
      [] c.op = "windowResize"     -> windowResize(m, c.dpr)

\* the world m with the state of the context as it is before any pass has
\* run: no program in use, the uniforms as linked, nothing bound
Forgotten(m) ==
    [m EXCEPT !.g.prog = "", !.g.uni = InitialUniforms, !.g.units = <<0, 0>>,
              !.g.active = 0, !.g.fbo = 0]

\* uniform values no pass of the model's calls sets
StaleUniforms ==
    [advect        |-> [uVelocity |-> 1, uSource |-> 0, uInverseTexSize |-> <<1, 1>>,
                        uDt |-> -7, uDissipation |-> <<1, 2>>],
     divergence    |-> [uVelocity |-> 1, uInverseTexSize |-> <<1, 1>>],
     curl          |-> [uVelocity |-> 1, uInverseTexSize |-> <<1, 1>>],
     vorticity     |-> [uVelocity |-> 1, uCurl |-> 0, uInverseTexSize |-> <<1, 1>>,
                        uVorticity |-> 5, uDt |-> -7],
     pressure      |-> [uPressure |-> 1, uDivergence |-> 0, uInverseTexSize |-> <<1, 1>>],
     gradient      |-> [uPressure |-> 1, uVelocity |-> 0, uInverseTexSize |-> <<1, 1>>],
     splat         |-> [uTarget |-> 1, uPoint |-> <<2, 2>>, uColor |-> <<Q, Q, Q>>,
                        uRadius |-> <<1, 1>>],
     velocitySplat |-> [uTarget |-> 1, uPoint |-> <<2, 2>>, uForce |-> <<Q, Q>>,
                        uRadius |-> <<1, 1>>],
     clear         |-> [uTarget |-> 1, uValue |-> <<1, 2>>]]

\* the texture t holding the sample v in every channel of every cell
Filled(t, v) ==
    [t EXCEPT !.data = Image([c \in DOMAIN t.data |-> SubSeq(<<v, v, v, v>>, 1, t.ch)])]

\* the world m with the same Fields but everything else a pass could read
\* different: another program in use, stale uniforms, unit 1 active, other
\* textures bound, another framebuffer, other samples in the write buffers
Stale(m) ==
    [m EXCEPT !.g.prog = "clear", !.g.uni = StaleUniforms,
              !.g.units = <<m.s.curl, m.s.divergence>>,
              !.g.active = 1, !.g.fbo = m.s.curl,
              !.g.tex[m.s.velocity.write] = Filled(@, 5),
              !.g.tex[m.s.dye.write] = Filled(@, 5),
              !.g.tex[m.s.pressure.write] = Filled(@, 5)]

\* the Fields of a world: the settings, and what velocity, dye and pressure
\* read and divergence and curl hold
CurrentFields(m) ==
    [settings |-> m.s.settings,
     velocity |-> m.g.tex[m.s.velocity.read], dye |-> m.g.tex[m.s.dye.read],
     pressure |-> m.g.tex[m.s.pressure.read],
     divergence |-> m.g.tex[m.s.divergence], curl |-> m.g.tex[m.s.curl]]

\* C22: what a call leaves in the Fields depends on the Fields and the
\* arguments only. The same call made on the same solver and textures with
\* the context as it was before any pass ran leaves the solver and all its
\* textures as the call made left them, and made with stale uniforms,
\* bindings, program, framebuffer and write-buffer contents it leaves the
\* same Fields.
C22_PassesHaveNoHiddenState ==
    [][call'.op \in ReplayedOps =>
          /\ \A fresh \in {Forgotten(World)} : \A m \in {Replayed(call', fresh)} :
                FieldState(m) = FieldState(WorldAfter)
          /\ \A stale \in {Stale(World)} : \A m \in {Replayed(call', stale)} :
                CurrentFields(m) = CurrentFields(WorldAfter)]_vars

\* a clear of a nonzero field was made after a step and a dye splat had set
\* their uniforms
C22_Witness ==
    /\ call.op = "clearTarget"
    /\ gl.uni.advect.uDt # 0
    /\ gl.uni.splat.uColor # <<0, 0, 0>>
    /\ NonZero(ReadImage(World, call.target))

\* the draws of the call just made that read the uniform uDt
TimedDraws ==
    {k \in 1 .. Len(passLog') :
        passLog'[k].kind = "draw" /\ passLog'[k].prog \in {"advect", "vorticity"}}

\* C23: every dt an animation frame passes to step() is at most 16 ms,
\* whatever time has passed since the frame before, and step() hands the dt
\* it receives, be it negative or above 16 ms, unchanged to the two advection
\* passes and to the vorticity pass.
C23_CallerClampsDt ==
    [][call'.op \in StepOps =>
          /\ Cardinality(TimedDraws) = 3
          /\ \A k \in TimedDraws : passLog'[k].uni.uDt = call'.dt
          /\ call'.op = "render" => \A k \in TimedDraws : passLog'[k].uni.uDt <= 16]_vars

\* a frame has run its step with a dt of 16 ms
C23_Witness ==
    /\ call.op = "render"
    /\ \E k \in 1 .. Len(passLog) :
          /\ passLog[k].kind = "draw"
          /\ passLog[k].prog = "vorticity"
          /\ passLog[k].uni.uDt = 16

\* the passes of the last call or event, in order: program and field written
PassesRun == [k \in 1 .. Len(Draws) |-> <<Draws[k].prog, OwnerOf(Draws[k].target)>>]

\* the three clears that follow the construction and every resize
ThreeClears == << <<"clear", "velocity">>, <<"clear", "dye">>, <<"clear", "pressure">> >>

\* C24: whatever the order in which pointer and touch events, resize events
\* and animation frames arrive, the passes of each are those of its handler
\* alone, whole and in order, none of another handler among them: a frame
\* runs the stages of exactly one step, a resize its three clears, a move
\* during a gesture its two splats, and the other events no pass; and the one
\* animation loop started at load keeps running.
C24_HandlersRunWhole ==
    /\ call.op = "render" => PassesRun = ExpectedStages(solver.settings.pressureIterations)
    /\ call.op = "windowResize" => PassesRun = ThreeClears
    /\ call.op = "pointermove" =>
          PassesRun = IF call.isDown
                   THEN << <<"velocitySplat", "velocity">>, <<"splat", "dye">> >>
                   ELSE << >>
    /\ call.op \in {"pointerdown", "pointerup"} => passLog = << >>
    /\ (call.op = "load" /\ page.phase = "running") =>
          [k \in 1 .. Len(Draws) |-> Draws[k].prog] = [k \in 1 .. 6 |-> "clear"]
    /\ page.phase = "running" => page.frames

\* a frame has run its step between the move and the end of a gesture
C24_Witness ==
    /\ call.op = "render"
    /\ page.pointerState.isDown
    /\ NonZero(ReadImage(World, "velocity"))
    /\ Len(Draws) = 6 + solver.settings.pressureIterations

\* the dye sampled at the normalized position (xn/xd, yn/yd) after the
\* transition
DyeSampledAt(xn, xd, yn, yd) == Bilinear(gl'.tex[solver'.dye.read], xn, xd, yn, yd)

\* C25: on a solver with a 64 x 64 velocity field and a 128 x 128 dye field,
\* both zero, and a splat radius of 0.001, one dye splat of colour (1, 0, 0)
\* at (0.5, 0.5) followed by one step(0.016) leaves a dye density (and a red
\* component) above 0.9 sampled at (0.5, 0.5) and below 0.01 sampled at
\* (0.1, 0.1).
C25_EndToEndScenario ==
    [][(/\ options.simSize = 64 /\ options.dyeSize = 128
        /\ options.splatRadius = <<1, 1000>>
        /\ calls = 1
        /\ call.op = "addDyeSplat"
        /\ 2 * call.point[1] = PointDen /\ 2 * call.point[2] = PointDen
        /\ call.color = <<Q, 0, 0>>
        /\ call' = [op |-> "step", dt |-> 16])
       => /\ 10 * DyeSampledAt(1, 2, 1, 2)[4] > 9 * Q
          /\ 10 * DyeSampledAt(1, 2, 1, 2)[1] > 9 * Q
          /\ 100 * DyeSampledAt(1, 10, 1, 10)[4] < Q
          /\ 100 * DyeSampledAt(1, 10, 1, 10)[1] < Q]_vars

\* the step of the scenario has run on the 128 x 128 dye field the splat left
C25_Witness ==
    /\ options.simSize = 64 /\ options.dyeSize = 128
    /\ calls = 2
    /\ call = [op |-> "step", dt |-> 16]
    /\ solver.dye.size.width = 128
    /\ solver.velocity.size.width = 64
    /\ passLog # << >>
    /\ 2 * Centre[1] = PointDen /\ 2 * Centre[2] = PointDen
    /\ 10 * Bilinear(gl.tex[solver.dye.read], 1, 2, 1, 2)[4] > 9 * Q

\* the cell c moved by (dx, dy), or the cell of the edge it would leave the
\* grid of the image P over
CellBeside(P, c, dx, dy) ==
    CHOOSE n \in DOMAIN P :
        \A o \in DOMAIN P :
            (Abs(n[1] - (c[1] + dx)) + Abs(n[2] - (c[2] + dy)))
                <= (Abs(o[1] - (c[1] + dx)) + Abs(o[2] - (c[2] + dy)))

\* the relax pass e wrote, at every cell, a quarter of the sum of the four
\* neighbours' pressures in the image it read less the cell's divergence
RelaxedOnce(e) ==
    \A P \in {InputOf(e, "uPressure").image} : \A D \in {InputOf(e, "uDivergence").image} :
        /\ DOMAIN e.out = DOMAIN P
        /\ InputOf(e, "uPressure").texture # e.target
        /\ \A c \in DOMAIN P :
              e.out[c][1] = Quant(P[CellBeside(P, c, -1, 0)][1] + P[CellBeside(P, c, 1, 0)][1]
                                  + P[CellBeside(P, c, 0, -1)][1] + P[CellBeside(P, c, 0, 1)][1]
                                  - D[c][1], 4)

\* C26: one relax pass leaves at every cell (sum of the four neighbours'
\* pressures before the pass - the cell's divergence) / 4; every sample is
\* taken from the buffer the pass reads, none from the one it writes; a
\* neighbour beyond the edge of the grid is the boundary cell's own pressure.
C26_RelaxPassIsJacobi ==
    call.op \in StepOps => \A k \in RelaxDraws(passLog) : RelaxedOnce(passLog[k])

\* a relax pass over a grid of several cells that read a pressure not zero at
\* a cell of the edge and a divergence not zero
C26_Witness ==
    /\ call.op = "step"
    /\ \E k \in RelaxDraws(passLog) :
          /\ Cardinality(DOMAIN passLog[k].out) > 1
          /\ NonZero(InputOf(passLog[k], "uDivergence").image)
          /\ \E c \in DOMAIN passLog[k].out :
                /\ c[1] = 0
                /\ InputOf(passLog[k], "uPressure").image[c][1] # 0
                /\ passLog[k].out[c][1] # 0

\* C27: whatever the timestamps of the animation frames, the first frame after
\* load and two frames with equal timestamps included, the dt a frame passes
\* to step, which the passes of the step draw with, is strictly positive.
C27_FrameDtIsPositive ==
    call.op = "render" =>
        /\ call.dt > 0
        /\ \A k \in 1 .. Len(passLog) :
              (passLog[k].kind = "draw" /\ passLog[k].prog \in {"advect", "vorticity"})
                  => passLog[k].uni.uDt > 0

\* the samples of velocity and of pressure a pass would read are all zero
AtRest ==
    /\ ~NonZero(gl.tex[solver.velocity.read].data)
    /\ ~NonZero(gl.tex[solver.pressure.read].data)

\* so are those of curl and divergence
Motionless ==
    /\ AtRest
    /\ ~NonZero(gl.tex[solver.curl].data)
    /\ ~NonZero(gl.tex[solver.divergence].data)

\* C28: dye never induces motion. A step (any dt, any number of relax passes)
\* from zero velocity and zero pressure leaves velocity, pressure, curl and
\* divergence zero everywhere; addDyeSplat leaves the four as they are, so zero
\* when they were zero; and from zero velocity and zero pressure the velocity
\* is not zero afterwards only when the call was addVelocitySplat.
C28_DyeInducesNoMotion ==
    [][/\ (call'.op = "step" /\ AtRest) => Motionless'
       /\ (call'.op = "addDyeSplat" /\ Motionless) => Motionless'
       /\ call'.op = "addDyeSplat" =>
             /\ gl'.tex[solver'.velocity.read] = gl.tex[solver.velocity.read]
             /\ gl'.tex[solver'.pressure.read] = gl.tex[solver.pressure.read]
             /\ gl'.tex[solver'.curl] = gl.tex[solver.curl]
             /\ gl'.tex[solver'.divergence] = gl.tex[solver.divergence]
       /\ (AtRest /\ NonZero(gl'.tex[solver'.velocity.read].data))
             => call'.op = "addVelocitySplat"]_vars

\* a step with relax passes has run over dye that is not zero and a velocity
\* that is, and left the fluid motionless
C28_Witness ==
    /\ call.op = "step"
    /\ RelaxDraws(passLog) # {}
    /\ ~NonZero(InputOf(Draws[1], "uVelocity").image)
    /\ NonZero(InputOf(Draws[2], "uSource").image)
    /\ NonZero(gl.tex[solver.dye.read].data)
    /\ Motionless

\* the draws of the event just handled
DrawsOfEvent == SelectSeq(passLog', LAMBDA e : e.kind = "draw")

\* a move with no gesture active: no pass, and the page, the solver and the
\* context are as before
IdleMove ==
    /\ passLog' = << >>
    /\ page' = page
    /\ solver' = solver
    /\ gl' = gl
    /\ display' = display

\* a move during a gesture: one velocity splat, then one dye splat, both at
\* the position of the event; the force is 600 times the displacement from
\* the position recorded last; the position of the event is recorded
GestureMove ==
    \A current \in {getPointerPosition(call'.event)} :
        /\ Len(DrawsOfEvent) = 2
        /\ DrawsOfEvent[1].prog = "velocitySplat"
        /\ DrawsOfEvent[1].target = solver'.velocity.read
        /\ DrawsOfEvent[1].uni.uPoint = current
        /\ \A i \in 1 .. 2 :
              DrawsOfEvent[1].uni.uForce[i] * PointDen
                  = 600 * Q * (current[i] - page.pointerState.last[i])
        /\ DrawsOfEvent[2].prog = "splat"
        /\ DrawsOfEvent[2].target = solver'.dye.read
        /\ DrawsOfEvent[2].uni.uPoint = current
        /\ DrawsOfEvent[2].uni.uColor = page.pointerState.color
        /\ page' = [page EXCEPT !.pointerState.last = current]

\* C29: after any sequence of pointer or touch down, move and up events
\* isDown is true exactly when last is not null; a move with no gesture active
\* issues no splat and changes no state; a move during a gesture issues one
\* addVelocitySplat, then one addDyeSplat, at the current position, with a
\* force proportional to the displacement from the position recorded before.
C29_GestureStateMachine ==
    [][/\ page'.phase = "running" =>
             (page'.pointerState.isDown <=> page'.pointerState.last # << >>)
       /\ call'.op = "pointermove" =>
             IF page.pointerState.isDown THEN GestureMove ELSE IdleMove]_vars

\* a move during a gesture, away from the position recorded last, has pushed
\* the fluid
C29_Witness ==
    /\ call.op = "pointermove"
    /\ call.isDown
    /\ call.last # getPointerPosition(call.event)
    /\ page.pointerState.isDown
    /\ page.pointerState.last = getPointerPosition(call.event)
    /\ Len(Draws) = 2
    /\ Draws[1].uni.uForce # <<0, 0>>
    /\ NonZero(Draws[1].out)

\* the largest density (fourth channel) among the samples of the dye image P
MaxDensity(P) == SetMax({P[c][4] : c \in DOMAIN P})

\* the dye image a draw of the program p takes its samples from
DyeSourceOf(e) == InputOf(e, IF e.prog = "advect" THEN "uSource" ELSE "uTarget").image

\* C30: from zeroed fields, with densityDissipation in (0, 1], after any
\* sequence of addDyeSplat, addVelocitySplat, step, clearTarget (value in
\* [0, 1]) and resize, the density (fourth) channel of every dye sample is in
\* [0, 1]; an advection or a clear of the dye leaves no density above the
\* largest one it read.
C30_DensityStaysInUnitRange ==
    /\ \A id \in FieldBuffers("dye") : \A c \in DOMAIN gl.tex[id].data :
          /\ gl.tex[id].data[c][4] >= 0
          /\ gl.tex[id].data[c][4] <= Q
    /\ \A k \in 1 .. Len(passLog) :
          (/\ passLog[k].kind = "draw"
           /\ passLog[k].prog \in {"advect", "clear"}
           /\ passLog[k].target \in FieldBuffers("dye"))
              => MaxDensity(passLog[k].out) <= MaxDensity(DyeSourceOf(passLog[k]))

\* a dye splat onto a sample whose density was 1.0 already has left it at 1.0
C30_Witness ==
    /\ call.op = "addDyeSplat"
    /\ Len(Draws) = 1
    /\ \E c \in DOMAIN Draws[1].out :
          /\ InputOf(Draws[1], "uTarget").image[c][4] = Q
          /\ Draws[1].out[c][1] > InputOf(Draws[1], "uTarget").image[c][1]
          /\ Draws[1].out[c][4] = Q
          /\ gl.tex[solver.dye.read].data[c][4] = Q

====
